---- MODULE Spec2Model ----
(***************************************************************************)
(* Dragon's World: the enemy and hazard simulation of src/enemies.js       *)
(* (window.Enemies) and the player record of src/player.js                 *)
(* (window.Player).                                                        *)
(*                                                                         *)
(* Numbers.  The source computes in IEEE doubles; the model computes in    *)
(* fixed point on integers:                                                *)
(*   lengths and coordinates   tenths of a pixel        Px(n) = 10 n       *)
(*   safeZone.radius           hundredths of a pixel    (120 -> 12000)     *)
(*   times and timers          milliseconds             Sec(n) = 1000 n    *)
(*   multipliers               thousandths              (1.15 -> 1150)     *)
(*   speeds                    tenths of a pixel per second                *)
(*   Math.random()             thousandths, 0 .. 999                       *)
(* A comparison of a Math.sqrt distance with a bound is made on the        *)
(* squares, which is exact; a quotient is rounded to the nearest grid      *)
(* value.                                                                  *)
(***************************************************************************)
EXTENDS Integers, Sequences, FiniteSets, TLC

VARIABLES
  S,      \* the live state object S of window.Enemies
  P,      \* window.Player: x, y, radius, facing, abilityCooldown, activeEffects
  call    \* the last call made by the game loop, with what it observed

vars == <<S, P, call>>

----------------------------------------------------------------------------
(* Arithmetic *)

Px(n) == 10 * n
Sec(n) == 1000 * n

Abs(a) == IF a < 0 THEN -a ELSE a
Sign(a) == IF a < 0 THEN -1 ELSE 1
Min(a, b) == IF a < b THEN a ELSE b
Max(a, b) == IF a > b THEN a ELSE b

\* a / b for b > 0, rounded to the nearest integer (half away from zero)
DivR(a, b) == IF a >= 0 THEN (2 * a + b) \div (2 * b)
              ELSE -((2 * (-a) + b) \div (2 * b))

\* a / b for b > 0, rounded away from zero
DivOut(a, b) == IF a >= 0 THEN (a + b - 1) \div b
                ELSE -(((-a) + b - 1) \div b)

RECURSIVE IsqrtIter(_, _, _)
IsqrtIter(n, lo, hi) ==
  IF lo >= hi THEN lo
  ELSE LET mid == (lo + hi + 1) \div 2
       IN IF mid * mid <= n THEN IsqrtIter(n, mid, hi)
          ELSE IsqrtIter(n, lo, mid - 1)

\* Math.sqrt, rounded down to the grid; 0 only for 0
Isqrt(n) == IsqrtIter(n, 0, 46340)

Sq(a) == a * a
Dist2(dx, dy) == dx * dx + dy * dy
Dist(dx, dy) == Isqrt(Dist2(dx, dy))

\* "Math.sqrt(dx*dx+dy*dy) || 1": a zero distance is replaced by 1 px
DistOr1(dx, dy) == IF Dist(dx, dy) = 0 THEN Px(1) ELSE Dist(dx, dy)

\* Math.max(lo, Math.min(hi, v))
Clamp(lo, hi, v) == Max(lo, Min(hi, v))

Null == <<>>
Some(v) == <<v>>
Infinity == 1000000000

\* the i-th draw (from 0) of Math.random() out of a finite stream of draws
Draw(rs, i) == rs[(i % Len(rs)) + 1]

\* (cos, sin) of the angle Math.random() * 2 PI, in thousandths, on 8 bearings
AngleDir(r) ==
  LET k == (r * 8) \div 1000
  IN CASE k = 0 -> <<1000, 0>>
       [] k = 1 -> <<707, 707>>
       [] k = 2 -> <<0, 1000>>
       [] k = 3 -> <<-707, 707>>
       [] k = 4 -> <<-1000, 0>>
       [] k = 5 -> <<-707, -707>>
       [] k = 6 -> <<0, -1000>>
       [] OTHER -> <<707, -707>>

\* (Math.random() - 0.5) * span
Jitter(r, span) == DivR((r - 500) * span, 1000)

----------------------------------------------------------------------------
(* Constants of src/enemies.js *)

MAP_W == Px(2000)
MAP_H == Px(2000)
CENTER_X == Px(1000)
CENTER_Y == Px(1000)
MAX_PER_ZONE == 6

ZONES ==
  [volcanic |-> [x |-> Px(50),   y |-> Px(50),   w |-> Px(900), h |-> Px(900)],
   glacial  |-> [x |-> Px(1050), y |-> Px(50),   w |-> Px(900), h |-> Px(900)],
   canopy   |-> [x |-> Px(1050), y |-> Px(1050), w |-> Px(900), h |-> Px(900)],
   reef     |-> [x |-> Px(50),   y |-> Px(1050), w |-> Px(900), h |-> Px(900)]]

ZoneNames == {"volcanic", "glacial", "canopy", "reef"}

\* Math.pow(1.25, level - 1), in thousandths
RECURSIVE SpeedMultOf(_)
SpeedMultOf(level) ==
  IF level <= 1 THEN 1000 ELSE DivR(SpeedMultOf(level - 1) * 1250, 1000)

resetState(level) ==
  [level |-> level,
   speedMult |-> SpeedMultOf(level),
   time |-> 0,
   playerMoved |-> FALSE,
   prevPX |-> Null, prevPY |-> Null,
   prevAbilityCooldown |-> 0,
   safeZone |-> [x |-> CENTER_X, y |-> CENTER_Y, radius |-> 12000, uses |-> 0,
                 maxUses |-> 3, active |-> TRUE, playerWasInside |-> FALSE],
   volcanic |-> [enemies |-> <<>>, lavaTrails |-> <<>>, geysers |-> <<>>,
                 speedTimer |-> 0, visualPhase |-> 0,
                 egg |-> [x |-> Px(250), y |-> Px(250), collected |-> FALSE]],
   glacial |-> [enemies |-> <<>>, frozenTiles |-> <<>>, iceBullets |-> <<>>,
                bulletCooldown |-> 0,
                egg |-> [x |-> Px(1800), y |-> Px(250), collected |-> FALSE,
                         thawTimer |-> 0, thawRequired |-> Sec(2)]],
   canopy |-> [enemies |-> <<>>, obstacles |-> <<>>, multiplyTimer |-> 0,
               teleportTimer |-> 0, teleportRange |-> Px(150),
               escalateTimer |-> 0, escalateWave |-> 0, visualPhase |-> 0,
               egg |-> [x |-> 0, y |-> 0, collected |-> FALSE,
                        _visible |-> FALSE, _host |-> Null]],
   reef |-> [enemies |-> <<>>, obstacles |-> <<>>, multiplyTimer |-> 0,
             waveTimer |-> 0, waveComplexity |-> 0, wavePhase |-> 0,
             visualPhase |-> 0,
             egg |-> [x |-> 0, y |-> 0, vx |-> 0, vy |-> 0,
                      collected |-> FALSE]]]

----------------------------------------------------------------------------
(* Enemy factories.  st is the state object the factory reads. *)

makeMagmawyrm(st, x, y, sizeMult, extraSpeed) ==
  LET sm == IF sizeMult = 0 THEN 1000 ELSE sizeMult
      es == IF extraSpeed = 0 THEN 1000 ELSE extraSpeed
      base == DivR(DivR(Px(60) * st.speedMult, 1000) * es, 1000)
  IN [type |-> "magmawyrm", x |-> x, y |-> y,
      radius |-> DivR(Px(20) * sm, 1000), sizeMult |-> sm,
      baseSpeed |-> base, speed |-> base, speedBoostMult |-> 1000,
      alive |-> TRUE, frozen |-> TRUE,
      trailTimer |-> 0, activeEffects |-> <<>>]

makeFrostwyrm(st, x, y) ==
  [type |-> "frostwyrm", x |-> x, y |-> y,
   radius |-> Px(24), speed |-> DivR(Px(30) * st.speedMult, 1000),
   alive |-> TRUE, frozen |-> TRUE,
   expandTimer |-> 0, expandRadius |-> Px(50),
   activeEffects |-> <<>>]

makeThornwyrm(st, x, y) ==
  [type |-> "thornwyrm", x |-> x, y |-> y,
   radius |-> Px(16), speed |-> DivR(Px(80) * st.speedMult, 1000),
   alive |-> TRUE, frozen |-> TRUE,
   visible |-> FALSE, lunging |-> FALSE,
   lungeVx |-> 0, lungeVy |-> 0,
   teleportRange |-> st.canopy.teleportRange,
   activeEffects |-> <<>>]

makeTidewyrm(st, x, y, waveOffset) ==
  [type |-> "tidewyrm", x |-> x, y |-> y,
   radius |-> Px(14), speed |-> DivR(Px(70) * st.speedMult, 1000),
   alive |-> TRUE, frozen |-> TRUE,
   waveOffset |-> waveOffset,
   activeEffects |-> <<>>]

\* the sequence q with f applied to each element
Map(q, f(_)) == [i \in 1 .. Len(q) |-> f(q[i])]

\* the elements of q that satisfy keep, in order
Filter(q, keep(_)) == SelectSeq(q, keep)

IsAlive(e) == e.alive

_aliveCount(st, zoneName) == Len(Filter(st[zoneName].enemies, IsAlive))

_inZone(x, y, zone) ==
  x >= zone.x /\ x <= zone.x + zone.w /\ y >= zone.y /\ y <= zone.y + zone.h

----------------------------------------------------------------------------
(* Initialization.  rs is the stream of Math.random() draws the call makes. *)

GeyserGrid == <<<<200, 200>>, <<700, 200>>, <<450, 450>>, <<200, 700>>, <<700, 700>>>>

_initVolcanic(st, rs) ==
  LET z == ZONES.volcanic
      geyser(i) == [x |-> z.x + Px(GeyserGrid[i][1]), y |-> z.y + Px(GeyserGrid[i][2]),
                    radius |-> Px(28),
                    timer |-> DivR(Draw(rs, i - 1) * Sec(5), 1000),
                    erupting |-> FALSE, eruptDur |-> 1500]
  IN [st EXCEPT
        !.volcanic.enemies =
            Append(@, makeMagmawyrm(st, z.x + z.w \div 2, z.y + z.h \div 2, 0, 0)),
        !.volcanic.geysers = @ \o [i \in 1 .. 5 |-> geyser(i)]]

\* 50 * (cos, sin) of (i / 6) * 2 PI, in tenths of a pixel
SeedTileOffset == <<<<500, 0>>, <<250, 433>>, <<-250, 433>>, <<-500, 0>>,
                    <<-250, -433>>, <<250, -433>>>>

_initGlacial(st) ==
  LET z == ZONES.glacial
      fw == makeFrostwyrm(st, z.x + z.w \div 2, z.y + z.h \div 2)
      tile(i) == [x |-> fw.x + SeedTileOffset[i][1] - Px(20),
                  y |-> fw.y + SeedTileOffset[i][2] - Px(20),
                  w |-> Px(40), h |-> Px(40)]
  IN [st EXCEPT !.glacial.enemies = Append(@, fw),
                !.glacial.frozenTiles = @ \o [i \in 1 .. 6 |-> tile(i)]]

\* lo + Math.random() * span
RandIn(r, lo, span) == lo + DivR(r * span, 1000)

\* _spawnThornwyrm without its cap test
_spawnThornwyrm_NoCap(st, rs, i0) ==
  [st EXCEPT !.canopy.enemies =
     Append(@, [makeThornwyrm(st,
                  RandIn(Draw(rs, i0), ZONES.canopy.x + Px(120), ZONES.canopy.w - Px(240)),
                  RandIn(Draw(rs, i0 + 1), ZONES.canopy.y + Px(120), ZONES.canopy.h - Px(240)))
                EXCEPT !.frozen = ~st.playerMoved])]

_spawnThornwyrm(st, rs, i0) ==
  IF _aliveCount(st, "canopy") >= MAX_PER_ZONE THEN st
  ELSE LET z == ZONES.canopy
           tw == makeThornwyrm(st,
                   RandIn(Draw(rs, i0), z.x + Px(120), z.w - Px(240)),
                   RandIn(Draw(rs, i0 + 1), z.y + Px(120), z.h - Px(240)))
       IN [st EXCEPT !.canopy.enemies =
             Append(@, [tw EXCEPT !.frozen = ~st.playerMoved])]

_addCanopyObstacles(st, count, rs, i0) ==
  LET z == ZONES.canopy
      ob(i) == [x |-> RandIn(Draw(rs, i0 + 3 * (i - 1)), z.x + Px(80), z.w - Px(160)),
                y |-> RandIn(Draw(rs, i0 + 3 * (i - 1) + 1), z.y + Px(80), z.h - Px(160)),
                r |-> RandIn(Draw(rs, i0 + 3 * (i - 1) + 2), Px(35), Px(25))]
  IN [st EXCEPT !.canopy.obstacles = @ \o [i \in 1 .. count |-> ob(i)]]

\* egg._host is the obstacle's index in S.canopy.obstacles (obstacles are only
\* ever appended, so the index names the same object for the whole level)
_assignCanopyEgg(st, rs, i0) ==
  LET obs == st.canopy.obstacles
  IN IF Len(obs) = 0 THEN st
     ELSE LET h == ((Draw(rs, i0) * Len(obs)) \div 1000) + 1
          IN [st EXCEPT !.canopy.egg._host = Some(h),
                        !.canopy.egg.x = obs[h].x,
                        !.canopy.egg.y = obs[h].y]

_initCanopy(st, rs) ==
  LET s1 == _spawnThornwyrm(st, rs, 5)
      s2 == _spawnThornwyrm(s1, rs, 7)
      s3 == _addCanopyObstacles(s2, 5, rs, 9)
  IN _assignCanopyEgg(s3, rs, 24)

_initReef(st, rs) ==
  LET z == ZONES.reef
      tw(i) == makeTidewyrm(st,
                 RandIn(Draw(rs, 25 + 2 * (i - 1)), z.x + Px(200), z.w - Px(400)),
                 RandIn(Draw(rs, 26 + 2 * (i - 1)), z.y + Px(200), z.h - Px(400)),
                 i - 1)
      ob(j) == LET ang == AngleDir(Draw(rs, 31 + 3 * (j - 1)))
               IN [x |-> RandIn(Draw(rs, 32 + 3 * (j - 1)), z.x + Px(120), z.w - Px(240)),
                   y |-> RandIn(Draw(rs, 33 + 3 * (j - 1)), z.y + Px(120), z.h - Px(240)),
                   vx |-> DivR(ang[1] * Px(80), 1000),
                   vy |-> DivR(ang[2] * Px(80), 1000),
                   r |-> Px(28)]
      ea == AngleDir(Draw(rs, 43))
  IN [st EXCEPT
        !.reef.enemies = @ \o [i \in 1 .. 3 |-> tw(i)],
        !.reef.obstacles = @ \o [j \in 1 .. 4 |-> ob(j)],
        !.reef.egg = [x |-> RandIn(Draw(rs, 44), z.x + Px(200), z.w - Px(400)),
                      y |-> RandIn(Draw(rs, 45), z.y + Px(200), z.h - Px(400)),
                      vx |-> DivR(ea[1] * Px(45), 1000),
                      vy |-> DivR(ea[2] * Px(45), 1000),
                      collected |-> FALSE]]

\* init with the player taken to have been inside the safe zone before
init_Inside(level, rs) ==
  [_initReef(_initCanopy(_initGlacial(_initVolcanic(resetState(level), rs)), rs), rs)
     EXCEPT !.safeZone.playerWasInside = TRUE]

init(level, rs) ==
  _initReef(_initCanopy(_initGlacial(_initVolcanic(resetState(level), rs)), rs), rs)

\* window.Player as the script leaves it
PlayerInit ==
  [x |-> Px(1000), y |-> Px(1000), radius |-> Px(12), speed |-> 35, facing |-> 0,
   abilityCooldown |-> 0, activeEffects |-> <<>>, currentDragonId |-> 1]

----------------------------------------------------------------------------
(* Helpers *)

\* the factor that brings the larger of |dx|, |dy| near 30000, so that the
\* square root below keeps four significant digits whatever the length
ScaleOf(dx, dy) == 30000 \div Max(1, Max(Abs(dx), Abs(dy)))

UnitOver(a, b, d) == <<DivR(a * 10000, d), DivR(b * 10000, d)>>
UnitOverOut(a, b, d) == <<DivOut(a * 10000, d), DivOut(b * 10000, d)>>
UnitScaled(a, b) == UnitOver(a, b, Dist(a, b))
UnitScaledOut(a, b) == UnitOverOut(a, b, Dist(a, b))

\* (dx / dist, dy / dist) in ten-thousandths, rounded to nearest; with
\* "dist || 1" a zero distance gives the zero vector
UnitVec(dx, dy) ==
  IF dx = 0 /\ dy = 0 THEN <<0, 0>>
  ELSE UnitScaled(dx * ScaleOf(dx, dy), dy * ScaleOf(dx, dy))

\* the same, each component rounded away from zero
UnitVecOut(dx, dy) ==
  IF dx = 0 /\ dy = 0 THEN <<0, 0>>
  ELSE UnitScaledOut(dx * ScaleOf(dx, dy), dy * ScaleOf(dx, dy))

\* unit component u (ten-thousandths) times a length
Along(u, len) == DivR(u * len, 10000)
AlongOut(u, len) == DivOut(u * len, 10000)

\* entity (any record with x and y) displaced by len along the unit vector u
MoveAlong(entity, u, len) ==
  [entity EXCEPT !.x = @ + Along(u[1], len), !.y = @ + Along(u[2], len)]

IsBlocking(eff) == eff.type = "freeze" \/ eff.type = "stun"
IsSlowing(eff) == eff.type = "slow" \/ eff.type = "permanentSlow"

RECURSIVE SlowProduct(_, _)
SlowProduct(effs, j) ==
  IF j > Len(effs) THEN 1000
  ELSE IF IsSlowing(effs[j])
  THEN DivR(effs[j].multiplier * SlowProduct(effs, j + 1), 1000)
  ELSE SlowProduct(effs, j + 1)

\* px per second times milliseconds, in tenths of a pixel
StepLen(speed, dt) == DivR(speed * dt, 1000)

\* e holds a freeze or a stun effect
HoldsBlock(e) == \E i \in 1 .. Len(e.activeEffects) : IsBlocking(e.activeEffects[i])

\* What a zone's movement step did to one enemy: e0 is the enemy after the
\* frame's effect tick, e1 the enemy after its own move, drop whether it left
\* a lava trail
StepOf(e0, e1, drop) ==
  [type |-> e0.type, blocked |-> HoldsBlock(e0),
   dx |-> e1.x - e0.x, dy |-> e1.y - e0.y, drop |-> drop]

\* What one zone simulator did in a frame: the player as it read it (p0) and
\* as it left it (p1), the step of each enemy of its list, and the number of
\* ice bullets that hit the player
ZoneLog(zone, p0, p1, steps, hits) ==
  [zone |-> zone, x0 |-> p0.x, y0 |-> p0.y, x1 |-> p1.x, y1 |-> p1.y,
   steps |-> steps, hits |-> hits]

_chasePlayer(enemy, player, dt) ==
  IF enemy.frozen THEN enemy
  ELSE IF \E i \in 1 .. Len(enemy.activeEffects) : IsBlocking(enemy.activeEffects[i])
  THEN enemy
  ELSE MoveAlong(enemy, UnitVec(player.x - enemy.x, player.y - enemy.y),
                 StepLen(DivR(enemy.speed * SlowProduct(enemy.activeEffects, 1), 1000), dt))

\* safeZone.radius (hundredths of a pixel) on the coordinate grid
RadiusOnGrid(sz) == sz.radius \div 10

\* e put at distance minD from the centre of sz along the unit vector u; the
\* product is rounded away from the centre
PlaceAt(e, sz, u, minD) ==
  [e EXCEPT !.x = sz.x + AlongOut(u[1], minD), !.y = sz.y + AlongOut(u[2], minD)]

BlockOne(sz, e) ==
  IF ~e.alive THEN e
  ELSE IF Dist2(e.x - sz.x, e.y - sz.y) < Sq(RadiusOnGrid(sz) + e.radius)
  THEN PlaceAt(e, sz, UnitVecOut(e.x - sz.x, e.y - sz.y), RadiusOnGrid(sz) + e.radius)
  ELSE e

_blockFromSafeZone(st, enemies) ==
  IF ~st.safeZone.active THEN enemies
  ELSE [i \in 1 .. Len(enemies) |-> BlockOne(st.safeZone, enemies[i])]

\* "dist || 1" compared with the reach
KnockNear(dx, dy, reach) ==
  IF dx = 0 /\ dy = 0 THEN Sq(Px(1)) < Sq(reach) ELSE Dist2(dx, dy) < Sq(reach)

_knockBack(entity, obs, entityRadius, distance) ==
  IF KnockNear(entity.x - obs.x, entity.y - obs.y, entityRadius + obs.r)
  THEN MoveAlong(entity, UnitVec(entity.x - obs.x, entity.y - obs.y), distance)
  ELSE entity

TickOne(eff, dt) ==
  IF eff.duration # Infinity THEN [eff EXCEPT !.duration = @ - dt] ELSE eff

\* Expired taking an effect away only below a duration of 0
Expired_Late(eff) == eff.duration # Infinity /\ eff.duration < 0

Expired(eff) == eff.duration # Infinity /\ eff.duration <= 0
NotExpired(eff) == ~Expired(eff)

TickEffectList(effs, dt) ==
  Filter([i \in 1 .. Len(effs) |-> TickOne(effs[i], dt)], NotExpired)

_tickEffects(enemies, dt) ==
  [i \in 1 .. Len(enemies) |->
     [enemies[i] EXCEPT !.activeEffects = TickEffectList(@, dt)]]

----------------------------------------------------------------------------
(* Safe zone *)

\* the player's circle lies within the zone: distance < radius - player.radius
InsideSafeZone(sz, player) ==
  /\ RadiusOnGrid(sz) - player.radius > 0
  /\ Dist2(player.x - sz.x, player.y - sz.y) < Sq(RadiusOnGrid(sz) - player.radius)

\* a counted entry: uses++, the radius shrinks by 20 %, and the zone closes
\* with the last use or under 18 px
\* SafeZoneEntry closing the zone one use late: "uses > maxUses"
SafeZoneEntry_Late(sz) ==
  [sz EXCEPT !.uses = @ + 1,
             !.radius = (@ * 80) \div 100,
             !.active = ~(sz.uses + 1 > sz.maxUses \/ (sz.radius * 80) \div 100 < 1800)]

SafeZoneEntry(sz) ==
  [sz EXCEPT !.uses = @ + 1,
             !.radius = (@ * 80) \div 100,
             !.active = ~(sz.uses + 1 >= sz.maxUses \/ (sz.radius * 80) \div 100 < 1800)]

SafeZoneStep(sz, inside) ==
  [(IF inside /\ ~sz.playerWasInside THEN SafeZoneEntry(sz) ELSE sz)
     EXCEPT !.playerWasInside = inside]

\* _updateSafeZone without its early return on an inactive zone
_updateSafeZone_NoGate(st, player) ==
  [st EXCEPT !.safeZone = SafeZoneStep(@, InsideSafeZone(@, player))]

_updateSafeZone(st, player) ==
  IF ~st.safeZone.active THEN st
  ELSE [st EXCEPT !.safeZone = SafeZoneStep(@, InsideSafeZone(@, player))]

----------------------------------------------------------------------------
(* Volcanic Wastes *)

\* the push of the player out of a circular hazard h (a lava trail or an
\* erupting geyser)
PushOut(player, h) ==
  IF /\ Dist2(player.x - h.x, player.y - h.y) < Sq(h.radius + player.radius)
     /\ Dist2(player.x - h.x, player.y - h.y) > 0
  THEN MoveAlong(player, UnitVec(player.x - h.x, player.y - h.y),
                 h.radius + player.radius - Dist(player.x - h.x, player.y - h.y) + Px(1))
  ELSE player

RECURSIVE PushFromTrails(_, _, _)
PushFromTrails(player, trails, i) ==
  IF i > Len(trails) THEN player
  ELSE PushFromTrails(PushOut(player, trails[i]), trails, i + 1)

LavaLives(t) == t.life > 0

LavaTick(trails, dt) ==
  Filter([i \in 1 .. Len(trails) |-> [trails[i] EXCEPT !.life = @ - dt]], LavaLives)

\* GeyserErupt letting the timer run on
GeyserErupt_KeepTimer(g) ==
  IF ~g.erupting /\ g.timer >= Sec(5) THEN [g EXCEPT !.erupting = TRUE] ELSE g

GeyserErupt(g) ==
  IF ~g.erupting /\ g.timer >= Sec(5) THEN [g EXCEPT !.erupting = TRUE, !.timer = 0]
  ELSE g

GeyserRest(g) ==
  IF g.erupting /\ g.timer >= g.eruptDur THEN [g EXCEPT !.erupting = FALSE, !.timer = 0]
  ELSE g

GeyserTick(g, dt) == GeyserRest(GeyserErupt([g EXCEPT !.timer = @ + dt]))

\* the geysers are walked in order: each is ticked, then pushes the player
RECURSIVE PushFromGeysers(_, _, _, _)
PushFromGeysers(player, geysers, dt, i) ==
  IF i > Len(geysers) THEN player
  ELSE PushFromGeysers(IF GeyserTick(geysers[i], dt).erupting
                       THEN PushOut(player, GeyserTick(geysers[i], dt)) ELSE player,
                       geysers, dt, i + 1)

\* SpeedBoost to 1.15 times the first speed, whatever the boosts before
SpeedBoost_Flat(e) ==
  [e EXCEPT !.speedBoostMult = 1150, !.speed = DivR(e.baseSpeed * 1150, 1000)]

SpeedBoostTo(e, m) == [e EXCEPT !.speedBoostMult = m, !.speed = DivR(e.baseSpeed * m, 1000)]
SpeedBoost(e) == SpeedBoostTo(e, DivR(e.speedBoostMult * 1150, 1000))

\* the speed timer has run out in this frame
BoostDue(v, dt) == v.speedTimer + dt >= Sec(5)

Boosted(v, dt) ==
  IF BoostDue(v, dt) THEN [i \in 1 .. Len(v.enemies) |-> SpeedBoost(v.enemies[i])]
  ELSE v.enemies

\* the split guard of one Magmawyrm: within 200 px and large enough
SplitMinSize == 400
\* SplitsNow without the size test: a Magmawyrm of any size splits
SplitsNow_AnySize(e, player) ==
  Dist2(player.x - e.x, player.y - e.y) <= Sq(Px(200))

SplitsNow(e, player) ==
  Dist2(player.x - e.x, player.y - e.y) <= Sq(Px(200)) /\ e.sizeMult > SplitMinSize

\* the children are allowed while the zone's live count leaves room for two
SplitRoom(count) == count + 2 <= MAX_PER_ZONE

\* ChildOf leaving the child the boost it was made with
ChildOf_OwnBoost(child, e) == [child EXCEPT !.frozen = FALSE]

ChildOf(child, e) ==
  [child EXCEPT !.frozen = FALSE,
                !.speedBoostMult = e.speedBoostMult,
                !.speed = DivR(child.baseSpeed * e.speedBoostMult, 1000)]

SplitChild(st, e, rs, i0) ==
  ChildOf(makeMagmawyrm(st,
            e.x + Jitter(Draw(rs, i0), e.radius * 2),
            e.y + Jitter(Draw(rs, i0 + 1), e.radius * 2),
            DivR(e.sizeMult * 600, 1000), 1300), e)

SplitChildren(st, e, rs, i) ==
  <<SplitChild(st, e, rs, 4 * (i - 1)), SplitChild(st, e, rs, 4 * (i - 1) + 2)>>

LavaTrailOf(e) ==
  [x |-> e.x, y |-> e.y, radius |-> DivR(e.radius * 9, 10),
   life |-> Sec(5), maxLife |-> Sec(5)]

\* the trail cadence: e after "trailTimer += dt" and the reset at 0.3 s
TrailDue(e, dt) == e.trailTimer + dt >= 300
TrailTimed(e, dt) == [e EXCEPT !.trailTimer = IF TrailDue(e, dt) THEN 0 ELSE @ + dt]

\* the accumulator after the Magmawyrm at i, which has moved to e, was handled:
\* split says whether it dies, children are the ones it spawns
VolcanicAcc(acc, i, e, drop, split, children, logged, player) ==
  [enemies |-> [acc.enemies EXCEPT ![i] = [e EXCEPT !.alive = ~split]],
   lavaTrails |-> IF drop THEN Append(acc.lavaTrails, LavaTrailOf(e)) ELSE acc.lavaTrails,
   newSplits |-> acc.newSplits \o children,
   dropped |-> IF drop THEN acc.dropped \cup {i} ELSE acc.dropped,
   log |-> IF logged
           THEN Append(acc.log, [parent |-> e, px |-> player.x, py |-> player.y,
                                 split |-> split, children |-> children])
           ELSE acc.log]

\* _aliveCount('volcanic') as the split guard reads it: the walked list with
\* the parent at i already dead, the buffered children not in it
CountWithout(enemies, i) == Len(Filter([enemies EXCEPT ![i].alive = FALSE], IsAlive))

VolcanicOne(st, acc, i, e, drop, player, abilityJustUsed, rs) ==
  VolcanicAcc(acc, i, e, drop,
    abilityJustUsed /\ SplitsNow(e, player),
    IF abilityJustUsed /\ SplitsNow(e, player) /\ SplitRoom(CountWithout(acc.enemies, i))
    THEN SplitChildren(st, e, rs, i) ELSE <<>>,
    abilityJustUsed, player)

\* acc: enemies (the list being walked, mutated in place), lavaTrails,
\* newSplits, dropped, the indices of the Magmawyrms that left a trail, and
\* log, one record per Magmawyrm the split guard looked at
RECURSIVE VolcanicEnemies(_, _, _, _, _, _, _)
VolcanicEnemies(st, acc, player, dt, abilityJustUsed, rs, i) ==
  IF i > Len(acc.enemies) THEN acc
  ELSE IF ~acc.enemies[i].alive \/ acc.enemies[i].frozen
  THEN VolcanicEnemies(st, acc, player, dt, abilityJustUsed, rs, i + 1)
  ELSE VolcanicEnemies(st,
         VolcanicOne(st, acc, i,
           TrailTimed(_chasePlayer(acc.enemies[i], player, dt), dt),
           TrailDue(acc.enemies[i], dt), player, abilityJustUsed, rs),
         player, dt, abilityJustUsed, rs, i + 1)

\* the player after the lava trails and the geysers of the frame
VolcanicPlayer(v, player, dt) ==
  PushFromGeysers(PushFromTrails(player, LavaTick(v.lavaTrails, dt), 1), v.geysers, dt, 1)

\* the steps of the Magmawyrms: before is the list after the boost and the
\* effect tick, after the list the walk has left
VolcanicSteps(before, after, dropped) ==
  [i \in 1 .. Len(before) |-> StepOf(before[i], after[i], i \in dropped)]

VolcanicClose(w, player, acc, dt) ==
  [w EXCEPT
     !.S.volcanic.speedTimer = IF BoostDue(w.S.volcanic, dt) THEN @ + dt - Sec(5) ELSE @ + dt,
     !.S.volcanic.lavaTrails = acc.lavaTrails,
     !.S.volcanic.geysers = [i \in 1 .. Len(@) |-> GeyserTick(@[i], dt)],
     !.S.volcanic.enemies =
        _blockFromSafeZone(w.S, Filter(acc.enemies, IsAlive) \o acc.newSplits),
     !.P = player,
     !.splits = acc.log,
     !.ran = Append(@, ZoneLog("volcanic", w.P, player,
                      VolcanicSteps(_tickEffects(Boosted(w.S.volcanic, dt), dt),
                                    acc.enemies, acc.dropped), 0))]

VolcanicWalk(w, player, dt, rs) ==
  VolcanicClose(w, player,
    VolcanicEnemies(w.S,
      [enemies |-> _tickEffects(Boosted(w.S.volcanic, dt), dt),
       lavaTrails |-> LavaTick(w.S.volcanic.lavaTrails, dt),
       newSplits |-> <<>>, dropped |-> {}, log |-> <<>>],
      player, dt, w.abilityJustUsed, rs, 1),
    dt)

\* w is the world of the frame: the state object S, the player P, and what the
\* frame has observed so far
_updateVolcanic(w, dt, rs) ==
  VolcanicWalk(w, VolcanicPlayer(w.S.volcanic, w.P, dt), dt, rs)

----------------------------------------------------------------------------
(* Glacial Peaks *)

BulletOf(e, u, aimless) ==
  [x |-> e.x, y |-> e.y,
   vx |-> Along(u[1], Px(210)), vy |-> Along(u[2], Px(210)),
   radius |-> Px(8), alive |-> TRUE, nan |-> aimless]

\* a bullet aimed over a zero distance gets vx = vy = 0 / 0: the nan flag stands
\* for the not-a-number its fields then hold
MakeBullet(e, player) ==
  BulletOf(e, UnitVec(player.x - e.x, player.y - e.y),
           player.x = e.x /\ player.y = e.y)

ExpandDue(e, dt) == e.expandTimer + dt >= 1500

FrozenTileOf(e, ang) ==
  [x |-> e.x + Along(10 * ang[1], e.expandRadius) - Px(20),
   y |-> e.y + Along(10 * ang[2], e.expandRadius) - Px(20),
   w |-> Px(40), h |-> Px(40)]

\* the Frostwyrm after its expansion step: a larger radius and a clamped drift
FrostwyrmDrift(e, jx, jy) ==
  [e EXCEPT
     !.expandTimer = 0,
     !.expandRadius = Min(@ + Px(6), Px(220)),
     !.x = Clamp(ZONES.glacial.x + e.radius,
                 ZONES.glacial.x + ZONES.glacial.w - e.radius, @ + jx),
     !.y = Clamp(ZONES.glacial.y + e.radius,
                 ZONES.glacial.y + ZONES.glacial.h - e.radius, @ + jy)]

FrostwyrmExpand(e, dt, rs, i) ==
  IF ExpandDue(e, dt)
  THEN FrostwyrmDrift(e, Jitter(Draw(rs, 17 + 3 * (i - 1)), Px(18)),
                         Jitter(Draw(rs, 18 + 3 * (i - 1)), Px(18)))
  ELSE [e EXCEPT !.expandTimer = @ + dt]

\* BulletInRange at any distance
BulletInRange_Always(e, player) == TRUE

BulletInRange(e, player) ==
  Dist2(player.x - e.x, player.y - e.y) <= Sq(Px(300))

\* the accumulator after the Frostwyrm at i: e0 before its step, e1 after
GlacialOne(acc, i, e0, e1, player, dt, rs) ==
  [enemies |-> [acc.enemies EXCEPT ![i] = e1],
   frozenTiles |-> IF ExpandDue(e0, dt)
                   THEN Append(acc.frozenTiles,
                               FrozenTileOf(e0, AngleDir(Draw(rs, 16 + 3 * (i - 1)))))
                   ELSE acc.frozenTiles,
   iceBullets |-> IF acc.bulletCooldown - dt <= 0 /\ BulletInRange(e1, player)
                  THEN Append(acc.iceBullets, MakeBullet(e1, player))
                  ELSE acc.iceBullets,
   bulletCooldown |-> IF acc.bulletCooldown - dt > 0 THEN acc.bulletCooldown - dt
                      ELSE IF BulletInRange(e1, player) THEN Sec(2) ELSE 500]

\* acc: enemies, frozenTiles, iceBullets, bulletCooldown
RECURSIVE GlacialEnemies(_, _, _, _, _)
GlacialEnemies(acc, player, dt, rs, i) ==
  IF i > Len(acc.enemies) THEN acc
  ELSE IF ~acc.enemies[i].alive \/ acc.enemies[i].frozen
  THEN GlacialEnemies(acc, player, dt, rs, i + 1)
  ELSE GlacialEnemies(
         GlacialOne(acc, i, acc.enemies[i], FrostwyrmExpand(acc.enemies[i], dt, rs, i),
                    player, dt, rs),
         player, dt, rs, i + 1)

BulletMove(b, dt) ==
  IF b.nan THEN b
  ELSE [b EXCEPT !.x = @ + StepLen(b.vx, dt), !.y = @ + StepLen(b.vy, dt)]

\* every comparison with a not-a-number is false
BulletHits(b, player) ==
  ~b.nan /\ Dist2(player.x - b.x, player.y - b.y) <= Sq(player.radius + b.radius)

BulletOut(b) == ~b.nan /\ (b.x < 0 \/ b.x > MAP_W \/ b.y < 0 \/ b.y > MAP_H)

DeadEffect == [type |-> "dead", duration |-> Infinity]

\* BulletOne leaving the bullet that hit the player in flight
BulletOne_Lingering(acc, i, b) ==
  [bullets |-> [acc.bullets EXCEPT ![i] = [b EXCEPT !.alive = ~BulletOut(b)]],
   player |-> IF BulletHits(b, acc.player)
              THEN [acc.player EXCEPT !.activeEffects = Append(@, DeadEffect)]
              ELSE acc.player,
   hits |-> IF BulletHits(b, acc.player) THEN acc.hits + 1 ELSE acc.hits]

\* the moved bullet b against the player: the contact kills the bullet and
\* signals the death, leaving the map kills the bullet
BulletOne(acc, i, b) ==
  [bullets |-> [acc.bullets EXCEPT ![i] =
                  [b EXCEPT !.alive = ~(BulletHits(b, acc.player) \/ BulletOut(b))]],
   player |-> IF BulletHits(b, acc.player)
              THEN [acc.player EXCEPT !.activeEffects = Append(@, DeadEffect)]
              ELSE acc.player,
   hits |-> IF BulletHits(b, acc.player) THEN acc.hits + 1 ELSE acc.hits]

\* acc: bullets (walked and mutated in place), player, and hits, the number
\* of bullets that have hit the player
RECURSIVE GlacialBullets(_, _, _)
GlacialBullets(acc, dt, i) ==
  IF i > Len(acc.bullets) THEN acc
  ELSE IF ~acc.bullets[i].alive THEN GlacialBullets(acc, dt, i + 1)
  ELSE GlacialBullets(BulletOne(acc, i, BulletMove(acc.bullets[i], dt)), dt, i + 1)

\* twice the overlap of the player's circle with the tile on each axis
OverlapX2(player, t) == (t.w + 2 * player.radius) - Abs(2 * player.x - (2 * t.x + t.w))
OverlapY2(player, t) == (t.h + 2 * player.radius) - Abs(2 * player.y - (2 * t.y + t.h))

TileTouch(player, t) ==
  /\ player.x > t.x - player.radius
  /\ player.x < t.x + t.w + player.radius
  /\ player.y > t.y - player.radius
  /\ player.y < t.y + t.h + player.radius

\* one frozen tile against the player's circle: the axis of least overlap
TilePush(player, t) ==
  IF TileTouch(player, t) /\ OverlapX2(player, t) > 0 /\ OverlapY2(player, t) > 0
  THEN IF OverlapX2(player, t) < OverlapY2(player, t)
       THEN [player EXCEPT !.x = @ + DivR(OverlapX2(player, t), 2)
                                    * Sign(2 * player.x - (2 * t.x + t.w))]
       ELSE [player EXCEPT !.y = @ + DivR(OverlapY2(player, t), 2)
                                    * Sign(2 * player.y - (2 * t.y + t.h))]
  ELSE player

RECURSIVE PushFromTiles(_, _, _)
PushFromTiles(player, tiles, i) ==
  IF i > Len(tiles) THEN player
  ELSE PushFromTiles(TilePush(player, tiles[i]), tiles, i + 1)

ThawRange(player) == player.radius + Px(30)

\* the player is in thawing reach of the Glacial egg
InThawRange(egg, player) ==
  Dist2(player.x - egg.x, player.y - egg.y) <= Sq(ThawRange(player))

\* GlacialEgg losing the whole thaw as the player steps out of reach
GlacialEgg_Reset(egg, player, dt) ==
  IF egg.collected THEN egg
  ELSE IF InThawRange(egg, player)
  THEN [egg EXCEPT !.thawTimer = @ + dt,
                   !.collected = (egg.thawTimer + dt >= egg.thawRequired)]
  ELSE [egg EXCEPT !.thawTimer = 0]

GlacialEgg(egg, player, dt) ==
  IF egg.collected THEN egg
  ELSE IF InThawRange(egg, player)
  THEN [egg EXCEPT !.thawTimer = @ + dt,
                   !.collected = (egg.thawTimer + dt >= egg.thawRequired)]
  ELSE [egg EXCEPT !.thawTimer = Max(0, @ - dt \div 2)]

\* the steps of the Frostwyrms: before is the list after the effect tick,
\* after the list the walk has left
GlacialSteps(before, after) ==
  [i \in 1 .. Len(before) |-> StepOf(before[i], after[i], FALSE)]

\* acc is the enemy walk's result, shot the bullet walk's, player the player
\* after bullets and tiles
GlacialClose(w, acc, shot, player, dt) ==
  [w EXCEPT
     !.S.glacial.enemies = _blockFromSafeZone(w.S, acc.enemies),
     !.S.glacial.frozenTiles = acc.frozenTiles,
     !.S.glacial.iceBullets = Filter(shot.bullets, IsAlive),
     !.S.glacial.bulletCooldown = acc.bulletCooldown,
     !.S.glacial.egg = GlacialEgg(@, player, dt),
     !.P = player,
     !.thawInRange = InThawRange(w.S.glacial.egg, player),
     !.ran = Append(@, ZoneLog("glacial", w.P, player,
                         GlacialSteps(_tickEffects(w.S.glacial.enemies, dt), acc.enemies),
                         shot.hits)
                       @@ [fired |-> Len(acc.iceBullets) - Len(w.S.glacial.iceBullets)])]

GlacialShot(w, acc, shot, dt) ==
  GlacialClose(w, acc, shot, PushFromTiles(shot.player, acc.frozenTiles, 1), dt)

GlacialWalk(w, acc, dt) ==
  GlacialShot(w, acc,
    GlacialBullets([bullets |-> acc.iceBullets, player |-> w.P, hits |-> 0], dt, 1), dt)

_updateGlacial(w, dt, rs) ==
  GlacialWalk(w,
    GlacialEnemies(
      [enemies |-> _tickEffects(w.S.glacial.enemies, dt),
       frozenTiles |-> w.S.glacial.frozenTiles,
       iceBullets |-> w.S.glacial.iceBullets,
       bulletCooldown |-> w.S.glacial.bulletCooldown],
      w.P, dt, rs, 1),
    dt)

----------------------------------------------------------------------------
(* Ancient Canopy *)

JoltOne(obs, rs, i0) ==
  [obs EXCEPT
     !.x = Clamp(ZONES.canopy.x + obs.r, ZONES.canopy.x + ZONES.canopy.w - obs.r,
                 @ + Jitter(Draw(rs, i0), Px(70))),
     !.y = Clamp(ZONES.canopy.y + obs.r, ZONES.canopy.y + ZONES.canopy.h - obs.r,
                 @ + Jitter(Draw(rs, i0 + 1), Px(70)))]

\* Math.random() < dt * 0.8
JoltNow(r, dt) == r * 10 < dt * 8

Jolted(obstacles, dt, rs) ==
  IF JoltNow(Draw(rs, 32), dt)
  THEN [k \in 1 .. Len(obstacles) |-> JoltOne(obstacles[k], rs, 33 + 2 * (k - 1))]
  ELSE obstacles

\* SpawnDue wherever the player is
SpawnDue_Anywhere(c, player, dt) == c.multiplyTimer + dt >= Sec(10)

\* the three timers of the zone
SpawnDue(c, player, dt) ==
  ~_inZone(player.x, player.y, ZONES.canopy) /\ c.multiplyTimer + dt >= Sec(10)
RangeDue(c, dt) == c.teleportTimer + dt >= Sec(5)
EscalateDue(c, dt) == c.escalateTimer + dt >= Sec(5)

CanopyTimers(c, player, dt) ==
  [c EXCEPT
     !.multiplyTimer = IF SpawnDue(c, player, dt) THEN 0 ELSE @ + dt,
     !.teleportTimer = IF RangeDue(c, dt) THEN 0 ELSE @ + dt,
     !.teleportRange = IF RangeDue(c, dt) THEN @ + Px(50) ELSE @,
     !.escalateTimer = IF EscalateDue(c, dt) THEN 0 ELSE @ + dt,
     !.escalateWave = IF EscalateDue(c, dt) THEN Min(@ + 1, 3) ELSE @]

\* the escalation: escalateWave new obstacles, and a host for a hostless egg
Escalated(st, due, rs) ==
  IF ~due THEN st
  ELSE IF st.canopy.egg._host = Null
  THEN _assignCanopyEgg(_addCanopyObstacles(st, st.canopy.escalateWave, rs, 22), rs, 31)
  ELSE _addCanopyObstacles(st, st.canopy.escalateWave, rs, 22)

\* the spawned Thornwyrm is made with the teleport range before its growth
\* and takes the grown range with the others
WithRange(enemies, range) ==
  [i \in 1 .. Len(enemies) |-> [enemies[i] EXCEPT !.teleportRange = range]]

CanopySpawned(st, player, dt, rs) ==
  IF SpawnDue(st.canopy, player, dt) THEN _spawnThornwyrm(st, rs, 20) ELSE st

CanopyRanged(st, st0, dt) ==
  IF RangeDue(st0.canopy, dt)
  THEN [st EXCEPT !.canopy.enemies = WithRange(@, st0.canopy.teleportRange + Px(50))]
  ELSE st

\* the state object after the timers, the spawn, the range and the escalation
CanopyGrow(st, player, dt, rs) ==
  Escalated(
    [CanopyRanged(CanopySpawned(st, player, dt, rs), st, dt) EXCEPT
       !.canopy = CanopyTimers(@, player, dt)],
    EscalateDue(st.canopy, dt), rs)

SetLunge(e, u, ls) ==
  [e EXCEPT !.visible = TRUE, !.lunging = TRUE,
            !.lungeVx = Along(u[1], ls), !.lungeVy = Along(u[2], ls)]

\* Reveal aiming the lunge again whenever the player is within 150 px
Reveal_Reaim(e, player) ==
  IF Dist2(player.x - e.x, player.y - e.y) <= Sq(Px(150))
  THEN SetLunge(e, UnitVec(player.x - e.x, player.y - e.y), DivR(e.speed * 25, 10))
  ELSE e

\* reveal and lunge when the player enters 150 px
Reveal(e, player) ==
  IF ~e.visible /\ Dist2(player.x - e.x, player.y - e.y) <= Sq(Px(150))
  THEN SetLunge(e, UnitVec(player.x - e.x, player.y - e.y), DivR(e.speed * 25, 10))
  ELSE e

\* the relocation to 0.75 teleportRange from the player, on the bearing u from
\* the enemy to the player
TeleportBack(e, player, u) ==
  [e EXCEPT !.x = player.x - Along(u[1], DivR(e.teleportRange * 75, 100)),
            !.y = player.y - Along(u[2], DivR(e.teleportRange * 75, 100))]

\* LungeEnd without the relocation
LungeEnd_Stay(e, player) ==
  [e EXCEPT !.lunging = ~(Dist2(player.x - e.x, player.y - e.y)
                            <= Sq(e.radius + player.radius + Px(8)))]

\* e has made its lunge step
LungeEnd(e, player) ==
  IF Dist2(player.x - e.x, player.y - e.y) > Sq(e.teleportRange)
  THEN TeleportBack(
         [e EXCEPT !.lunging = ~(Dist2(player.x - e.x, player.y - e.y)
                                   <= Sq(e.radius + player.radius + Px(8)))],
         player, UnitVec(player.x - e.x, player.y - e.y))
  ELSE [e EXCEPT !.lunging = ~(Dist2(player.x - e.x, player.y - e.y)
                                 <= Sq(e.radius + player.radius + Px(8)))]

Lunge(e, player, dt) ==
  IF e.lunging
  THEN LungeEnd([e EXCEPT !.x = @ + StepLen(e.lungeVx, dt),
                          !.y = @ + StepLen(e.lungeVy, dt)], player)
  ELSE IF e.visible THEN _chasePlayer(e, player, dt)
  ELSE e

\* KeepInCanopy clamping on the bare rectangle of the zone
KeepInCanopy_Bare(e) ==
  [e EXCEPT
     !.x = Clamp(ZONES.canopy.x, ZONES.canopy.x + ZONES.canopy.w, @),
     !.y = Clamp(ZONES.canopy.y, ZONES.canopy.y + ZONES.canopy.h, @)]

KeepInCanopy(e) ==
  [e EXCEPT
     !.x = Clamp(ZONES.canopy.x + e.radius, ZONES.canopy.x + ZONES.canopy.w - e.radius, @),
     !.y = Clamp(ZONES.canopy.y + e.radius, ZONES.canopy.y + ZONES.canopy.h - e.radius, @)]

ThornwyrmStep(e, player, dt) == KeepInCanopy(Lunge(Reveal(e, player), player, dt))

CanopyEggAt(egg, host, player) ==
  [egg EXCEPT
     !.x = host.x, !.y = host.y,
     !._visible = Dist2(player.x - host.x, player.y - host.y) <= Sq(Px(100)),
     !.collected = /\ Dist2(player.x - host.x, player.y - host.y) <= Sq(Px(100))
                   /\ Dist2(player.x - host.x, player.y - host.y)
                        <= Sq(player.radius + Px(18))]

CanopyEgg(egg, obstacles, player) ==
  IF ~egg.collected /\ egg._host # Null
  THEN CanopyEggAt(egg, obstacles[egg._host[1]], player)
  ELSE egg

CanopyEnemies(enemies, player, dt) ==
  [i \in 1 .. Len(enemies) |->
     IF ~enemies[i].alive \/ enemies[i].frozen THEN enemies[i]
     ELSE ThornwyrmStep(enemies[i], player, dt)]

\* the steps of the Thornwyrms, each before it is kept in the zone: enemies is
\* the list after the effect tick
CanopySteps(enemies, player, dt) ==
  [i \in 1 .. Len(enemies) |->
     IF ~enemies[i].alive \/ enemies[i].frozen THEN StepOf(enemies[i], enemies[i], FALSE)
     ELSE StepOf(enemies[i], Lunge(Reveal(enemies[i], player), player, dt), FALSE)]

\* st is the state object after CanopyGrow, obstacles its jolted obstacles
CanopyClose(w, st, obstacles, dt) ==
  [w EXCEPT
     !.S = [st EXCEPT
              !.canopy.obstacles = obstacles,
              !.canopy.enemies =
                 _blockFromSafeZone(w.S, CanopyEnemies(_tickEffects(@, dt), w.P, dt)),
              !.canopy.egg = CanopyEgg(@, obstacles, w.P)],
     !.ran = Append(@, ZoneLog("canopy", w.P, w.P,
                      CanopySteps(_tickEffects(st.canopy.enemies, dt), w.P, dt), 0))]

CanopyWalk(w, st, dt, rs) == CanopyClose(w, st, Jolted(st.canopy.obstacles, dt, rs), dt)

_updateCanopy(w, dt, rs) == CanopyWalk(w, CanopyGrow(w.S, w.P, dt, rs), dt, rs)

----------------------------------------------------------------------------
(* Sunken Reef *)

\* the largest offset of a school target from the zone centre on one axis: the
\* primary ellipse, plus the harmonics the wave complexity has switched on
TargetReach(span, complexity) ==
  DivR(span * 36, 100) + (IF complexity >= 2 THEN Px(80) ELSE 0)
                       + (IF complexity >= 3 THEN Px(45) ELSE 0)
                       + (IF complexity >= 4 THEN Px(30) ELSE 0)

\* The target of the i-th school member.  The source computes it from cos and
\* sin of the wave phase; the model takes the two trigonometric sums as the pair
\* tg[i] of signed thousandths of the reach, any value of which some phase gives
SchoolTarget(complexity, tg, i) ==
  <<ZONES.reef.x + ZONES.reef.w \div 2
      + DivR(tg[((i - 1) % Len(tg)) + 1][1] * TargetReach(ZONES.reef.w, complexity), 1000),
    ZONES.reef.y + ZONES.reef.h \div 2
      + DivR(tg[((i - 1) % Len(tg)) + 1][2] * TargetReach(ZONES.reef.h, complexity), 1000)>>

IsSchooling(e) == e.alive /\ ~e.frozen

KeepInReef(e) ==
  [e EXCEPT
     !.x = Clamp(ZONES.reef.x + e.radius, ZONES.reef.x + ZONES.reef.w - e.radius, @),
     !.y = Clamp(ZONES.reef.y + e.radius, ZONES.reef.y + ZONES.reef.h - e.radius, @)]

\* the seek of the target t, at the enemy's own speed
SeekMove(e, t, dt) == MoveAlong(e, UnitVec(t[1] - e.x, t[2] - e.y), StepLen(e.speed, dt))

TidewyrmSeek(e, t, dt) == KeepInReef(SeekMove(e, t, dt))

\* the rank of enemies[i] among the schooling enemies, from 1
SchoolRank(enemies, i) == Len(Filter(SubSeq(enemies, 1, i), IsSchooling))

School(enemies, complexity, tg, dt) ==
  [i \in 1 .. Len(enemies) |->
     IF IsSchooling(enemies[i])
     THEN TidewyrmSeek(enemies[i], SchoolTarget(complexity, tg, SchoolRank(enemies, i)), dt)
     ELSE enemies[i]]

\* the steps of the Tidewyrms, each before it is kept in the zone: enemies is
\* the list after the effect tick
SchoolSteps(enemies, complexity, tg, dt) ==
  [i \in 1 .. Len(enemies) |->
     IF IsSchooling(enemies[i])
     THEN StepOf(enemies[i],
                 SeekMove(enemies[i], SchoolTarget(complexity, tg, SchoolRank(enemies, i)), dt),
                 FALSE)
     ELSE StepOf(enemies[i], enemies[i], FALSE)]

\* a coordinate v moving at velocity w between the walls lo and hi: the
\* position after the two wall tests, and the velocity
BounceAt(v, lo, hi) == IF v < lo THEN (IF lo > hi THEN hi ELSE lo) ELSE IF v > hi THEN hi ELSE v
BounceVel(v, w, lo, hi) ==
  IF (IF v < lo THEN lo ELSE v) > hi THEN -Abs(w)
  ELSE IF v < lo THEN Abs(w) ELSE w

ObstacleMove(obs, dt) ==
  [obs EXCEPT
     !.x = BounceAt(@ + StepLen(obs.vx, dt), ZONES.reef.x + obs.r,
                    ZONES.reef.x + ZONES.reef.w - obs.r),
     !.vx = BounceVel(obs.x + StepLen(obs.vx, dt), @, ZONES.reef.x + obs.r,
                      ZONES.reef.x + ZONES.reef.w - obs.r),
     !.y = BounceAt(@ + StepLen(obs.vy, dt), ZONES.reef.y + obs.r,
                    ZONES.reef.y + ZONES.reef.h - obs.r),
     !.vy = BounceVel(obs.y + StepLen(obs.vy, dt), @, ZONES.reef.y + obs.r,
                      ZONES.reef.y + ZONES.reef.h - obs.r)]

KnockEnemies(enemies, obs) ==
  [i \in 1 .. Len(enemies) |->
     IF enemies[i].alive THEN _knockBack(enemies[i], obs, enemies[i].radius, Px(40))
     ELSE enemies[i]]

\* the accumulator after the moved obstacle obs at j has knocked back the
\* player and the enemies
ReefObstacleOne(acc, j, obs) ==
  [obstacles |-> [acc.obstacles EXCEPT ![j] = obs],
   player |-> _knockBack(acc.player, obs, acc.player.radius, Px(40)),
   enemies |-> KnockEnemies(acc.enemies, obs)]

\* acc: obstacles (walked, mutated in place), enemies, player
RECURSIVE ReefObstacles(_, _, _)
ReefObstacles(acc, dt, j) ==
  IF j > Len(acc.obstacles) THEN acc
  ELSE ReefObstacles(ReefObstacleOne(acc, j, ObstacleMove(acc.obstacles[j], dt)), dt, j + 1)

CatchRange(player) == player.radius + Px(18)

\* ReefEggMove without the walls: the egg drifts on past the margin
ReefEggMove_Free(egg, dt) ==
  [egg EXCEPT !.x = @ + StepLen(egg.vx, dt), !.y = @ + StepLen(egg.vy, dt)]

ReefEggMove(egg, dt) ==
  [egg EXCEPT
     !.x = BounceAt(@ + StepLen(egg.vx, dt), ZONES.reef.x + Px(20),
                    ZONES.reef.x + ZONES.reef.w - Px(20)),
     !.vx = BounceVel(egg.x + StepLen(egg.vx, dt), @, ZONES.reef.x + Px(20),
                      ZONES.reef.x + ZONES.reef.w - Px(20)),
     !.y = BounceAt(@ + StepLen(egg.vy, dt), ZONES.reef.y + Px(20),
                    ZONES.reef.y + ZONES.reef.h - Px(20)),
     !.vy = BounceVel(egg.y + StepLen(egg.vy, dt), @, ZONES.reef.y + Px(20),
                      ZONES.reef.y + ZONES.reef.h - Px(20))]

\* the egg is caught on radius overlap with the player
ReefCatch(egg, player) ==
  Dist2(player.x - egg.x, player.y - egg.y) <= Sq(CatchRange(player))

ReefCaught(egg, player) == [egg EXCEPT !.collected = ReefCatch(egg, player)]

\* ReefEgg without the test of collected
ReefEgg_NoGuard(egg, player, dt) == ReefCaught(ReefEggMove(egg, dt), player)

\* ReefEgg testing the catch on the egg before its move
ReefEgg_StaleCatch(egg, player, dt) ==
  IF egg.collected THEN egg
  ELSE [ReefEggMove(egg, dt) EXCEPT !.collected = ReefCatch(egg, player)]

ReefEgg(egg, player, dt) ==
  IF egg.collected THEN egg ELSE ReefCaught(ReefEggMove(egg, dt), player)

MultiplyDue(r, dt) == r.multiplyTimer + dt >= Sec(10)
WaveDue(r, dt) == r.waveTimer + dt >= Sec(5)

\* SpawnTidewyrm leaving the Tidewyrm frozen, as its factory makes it
SpawnTidewyrm_Frozen(st, rs) ==
  makeTidewyrm(st,
    RandIn(Draw(rs, 60), ZONES.reef.x + Px(150), ZONES.reef.w - Px(300)),
    RandIn(Draw(rs, 61), ZONES.reef.y + Px(150), ZONES.reef.h - Px(300)),
    Draw(rs, 62))

SpawnTidewyrm(st, rs) ==
  [makeTidewyrm(st,
     RandIn(Draw(rs, 60), ZONES.reef.x + Px(150), ZONES.reef.w - Px(300)),
     RandIn(Draw(rs, 61), ZONES.reef.y + Px(150), ZONES.reef.h - Px(300)),
     Draw(rs, 62))
   EXCEPT !.frozen = FALSE]

ReefSpawned(st, dt, rs) ==
  IF MultiplyDue(st.reef, dt) /\ _aliveCount(st, "reef") < MAX_PER_ZONE
  THEN Append(st.reef.enemies, SpawnTidewyrm(st, rs))
  ELSE st.reef.enemies

ReefTimers(r, dt) ==
  [r EXCEPT !.multiplyTimer = IF MultiplyDue(r, dt) THEN 0 ELSE @ + dt,
            !.waveTimer = IF WaveDue(r, dt) THEN 0 ELSE @ + dt,
            !.waveComplexity = IF WaveDue(r, dt) THEN Min(@ + 1, 4) ELSE @,
            !.wavePhase = @ + dt]

\* acc is the result of the obstacle walk, steps the steps of the school
ReefClose(w, acc, steps, dt) ==
  [w EXCEPT
     !.S.reef = [ReefTimers(@, dt) EXCEPT
                   !.enemies = _blockFromSafeZone(w.S, acc.enemies),
                   !.obstacles = acc.obstacles,
                   !.egg = ReefEgg(@, acc.player, dt)],
     !.P = acc.player,
     !.reefCaught = ReefCatch(ReefEggMove(w.S.reef.egg, dt), acc.player),
     !.ran = Append(@, ZoneLog("reef", w.P, acc.player, steps, 0))]

_updateReef(w, dt, rs, tg) ==
  ReefClose(w,
    ReefObstacles(
      [obstacles |-> w.S.reef.obstacles,
       enemies |-> School(_tickEffects(ReefSpawned(w.S, dt, rs), dt),
                          ReefTimers(w.S.reef, dt).waveComplexity, tg, dt),
       player |-> w.P],
      dt, 1),
    SchoolSteps(_tickEffects(ReefSpawned(w.S, dt, rs), dt),
                ReefTimers(w.S.reef, dt).waveComplexity, tg, dt),
    dt)

----------------------------------------------------------------------------
(* The frame driver *)

UnfreezeZone(z) ==
  [z EXCEPT !.enemies = [i \in 1 .. Len(@) |-> [@[i] EXCEPT !.frozen = FALSE]]]

_unfreezeAll(st) ==
  [st EXCEPT !.volcanic = UnfreezeZone(@), !.glacial = UnfreezeZone(@),
             !.canopy = UnfreezeZone(@), !.reef = UnfreezeZone(@)]

\* the first observed displacement of the player
FirstMove(st, player) ==
  /\ ~st.playerMoved
  /\ st.prevPX # Null
  /\ (Some(player.x) # st.prevPX \/ Some(player.y) # st.prevPY)

MoveEdge(st, player) ==
  IF st.playerMoved THEN st
  ELSE [(IF FirstMove(st, player) THEN _unfreezeAll(st) ELSE st) EXCEPT
          !.playerMoved = FirstMove(st, player),
          !.prevPX = Some(player.x), !.prevPY = Some(player.y)]

\* the cooldown has jumped from 0 to a positive value since the last update
AbilityEdge(st, player) == st.prevAbilityCooldown = 0 /\ player.abilityCooldown > 0

\* the head of update: the clock, the two edge detections and the safe zone
FrameHead(st, player, dt) ==
  _updateSafeZone(
    [MoveEdge([st EXCEPT !.time = @ + dt], player) EXCEPT
       !.prevAbilityCooldown = player.abilityCooldown],
    player)

\* Zones without the playerMoved gate
Zones_Ungated(w, dt, rs, tg) ==
  _updateReef(_updateCanopy(_updateGlacial(_updateVolcanic(w, dt, rs), dt, rs),
                            dt, rs), dt, rs, tg)

\* Zones ticking the geyser timers while the player has not moved
Zones_Ticking(w, dt, rs, tg) ==
  IF w.S.playerMoved
  THEN _updateReef(_updateCanopy(_updateGlacial(_updateVolcanic(w, dt, rs), dt, rs),
                                 dt, rs), dt, rs, tg)
  ELSE [w EXCEPT !.S.volcanic.geysers = [i \in 1 .. Len(@) |-> GeyserTick(@[i], dt)]]

\* Zones running the Glacial Peaks before the Volcanic Wastes
Zones_GlacialFirst(w, dt, rs, tg) ==
  IF w.S.playerMoved
  THEN _updateReef(_updateCanopy(_updateVolcanic(_updateGlacial(w, dt, rs), dt, rs),
                                 dt, rs), dt, rs, tg)
  ELSE w

\* the zones in the order update runs them, each on the world the one before
\* it left; they run only once the player has moved
Zones(w, dt, rs, tg) ==
  IF w.S.playerMoved
  THEN _updateReef(_updateCanopy(_updateGlacial(_updateVolcanic(w, dt, rs), dt, rs),
                                 dt, rs), dt, rs, tg)
  ELSE w

VisualPhases(w, dt) ==
  [w EXCEPT !.S.volcanic.visualPhase = @ + dt * 8,
            !.S.reef.visualPhase = @ + DivR(dt * 15, 10),
            !.S.canopy.visualPhase = @ + dt * 3]

\* Enemies.update(dt, player).  The result is the world after the frame: the
\* state object S, the player P, and what the frame observed: abilityJustUsed,
\* whether the zones ran, the Magmawyrms the split guard looked at, the two
\* egg tests as the zone simulators evaluated them, and ran, the log of the
\* zone simulators in the order in which they ran
update(st, player, dt, rs, tg) ==
  VisualPhases(
    Zones([S |-> FrameHead(st, player, dt), P |-> player,
           abilityJustUsed |-> AbilityEdge(st, player),
           zonesRun |-> st.playerMoved \/ FirstMove(st, player),
           splits |-> <<>>, thawInRange |-> FALSE, reefCaught |-> FALSE,
           ran |-> <<>>],
          dt, rs, tg),
    dt)

----------------------------------------------------------------------------
(* window.Player (src/player.js) *)

ABILITY_COOLDOWN_DURATION == 10

isNearLineSegment(px, py, x1, y1, x2, y2, halfWidth) ==
  LET dx == x2 - x1
      dy == y2 - y1
      len == Dist(dx, dy)
      along == IF len = 0 THEN 0
               ELSE Clamp(0, len, DivR((px - x1) * dx + (py - y1) * dy, len))
      closestX == IF len = 0 THEN x1 ELSE x1 + DivR(along * dx, len)
      closestY == IF len = 0 THEN y1 ELSE y1 + DivR(along * dy, len)
  IN Dist2(px - closestX, py - closestY) <= Sq(halfWidth)

\* the end of Stormtalon's dash; facing is kept in thousandths of a turn
DashEnd(player) ==
  [player EXCEPT !.x = @ + DivR(AngleDir(player.facing)[1] * Px(300), 1000),
                 !.y = @ + DivR(AngleDir(player.facing)[2] * Px(300), 1000)]

WithEffect(e, eff) == [e EXCEPT !.activeEffects = Append(@, eff)]

\* what each ability does to the enemy e
Slowed(e, player) ==
  IF Dist2(e.x - player.x, e.y - player.y) <= Sq(Px(200))
  THEN WithEffect(e, [type |-> "slow", multiplier |-> 500, duration |-> Sec(3)])
  ELSE e

Stunned(e, player, end) ==
  IF isNearLineSegment(e.x, e.y, player.x, player.y, end.x, end.y, Px(24))
  THEN WithEffect(e, [type |-> "stun", duration |-> Sec(2)])
  ELSE e

Pulled(e, player) ==
  WithEffect([e EXCEPT !.x = player.x, !.y = player.y],
             [type |-> "freeze", duration |-> Sec(5)])

Knocked(e, player) ==
  MoveAlong(e, UnitVec(e.x - player.x, e.y - player.y), Px(80))

AlreadySlowed(e) == \E i \in 1 .. Len(e.activeEffects) : e.activeEffects[i].type = "permanentSlow"

Chilled(e) ==
  IF AlreadySlowed(e)
  THEN WithEffect(e, [type |-> "freeze", duration |-> Sec(4)])
  ELSE WithEffect(WithEffect(e, [type |-> "freeze", duration |-> Sec(4)]),
                  [type |-> "permanentSlow", multiplier |-> 700, duration |-> Infinity])

Struck(id, e, player) ==
  CASE id = 1 -> Slowed(e, player)
    [] id = 3 -> Stunned(e, player, DashEnd(player))
    [] id = 4 -> Pulled(e, player)
    [] id = 5 -> Knocked(e, player)
    [] id = 6 -> Chilled(e)
    [] OTHER -> e

\* game.enemies is the game layer's view of the enemies of Enemies.getState():
\* an ability is applied to every enemy of the four lists
OnEveryEnemy(st, id, player) ==
  [st EXCEPT !.volcanic.enemies = [i \in 1 .. Len(@) |-> Struck(id, @[i], player)],
             !.glacial.enemies = [i \in 1 .. Len(@) |-> Struck(id, @[i], player)],
             !.canopy.enemies = [i \in 1 .. Len(@) |-> Struck(id, @[i], player)],
             !.reef.enemies = [i \in 1 .. Len(@) |-> Struck(id, @[i], player)]]

\* Tidesong: slow bubble
Ability1(st, player) == [S |-> OnEveryEnemy(st, 1, player), P |-> player]

\* Verdenwing: invisibility (the decoy belongs to the game layer)
Ability2(st, player) ==
  [S |-> st, P |-> WithEffect(player, [type |-> "invisible", duration |-> Sec(4)])]

\* Stormtalon: lightning dash
Ability3(st, player) == [S |-> OnEveryEnemy(st, 3, player), P |-> DashEnd(player)]

\* Shadowmend: gravity pull and freeze
Ability4(st, player) == [S |-> OnEveryEnemy(st, 4, player), P |-> player]

\* Emberclaw: fire ring knockback
Ability5(st, player) == [S |-> OnEveryEnemy(st, 5, player), P |-> player]

\* Frostfang: mass freeze and permanent slow
Ability6(st, player) == [S |-> OnEveryEnemy(st, 6, player), P |-> player]

abilities(id, st, player) ==
  CASE id = 1 -> Ability1(st, player)
    [] id = 2 -> Ability2(st, player)
    [] id = 3 -> Ability3(st, player)
    [] id = 4 -> Ability4(st, player)
    [] id = 5 -> Ability5(st, player)
    [] OTHER -> Ability6(st, player)

\* the guard of useAbility: the ability is ready and the dragon has one
AbilityReady(player) == player.abilityCooldown <= 0 /\ player.currentDragonId \in 1 .. 6

useAbility(st, player) ==
  IF ~AbilityReady(player) THEN [S |-> st, P |-> player]
  ELSE LET done == abilities(player.currentDragonId, st, player)
       IN [S |-> done.S,
           P |-> [done.P EXCEPT !.abilityCooldown = Sec(ABILITY_COOLDOWN_DURATION)]]

\* Player.update: every effect of the player is ticked, the permanent ones too
\* (an infinite duration less dt is infinite)
PlayerUpdate(player, dt) ==
  [player EXCEPT
     !.abilityCooldown = IF @ > 0 THEN Max(0, @ - dt) ELSE @,
     !.activeEffects = TickEffectList(@, dt)]

----------------------------------------------------------------------------
(* Actions: the calls the game loop makes.  call records the last call and  *)
(* what it observed; its fields updated, inside and held are kept from one  *)
(* update to the next:                                                      *)
(*   updated   an update has been made since init                           *)
(*   inside    the player was inside the safe zone at the last update       *)
(*   held      the time for which the player has been in thawing reach of   *)
(*             the Glacial egg over the consecutive updates so far          *)
(*   dwell     the same time, with the reach measured on the player as the  *)
(*             update was called and as it returned, whether the zones ran  *)
(*             or not                                                       *)
(*   used      the number of abilities activated since init                 *)
(*   fresh     an ability has been activated since the last update          *)
(*   frames    the number of updates since init                             *)
(* and sz0, eggs0, alive0, prevUpdated, prevInside, activated are           *)
(* S.safeZone, the eggs, the live counts and the kept fields updated,       *)
(* inside and fresh as they were when the call was made.                    *)

EggsOf(st) == <<st.volcanic.egg, st.glacial.egg, st.canopy.egg, st.reef.egg>>

AliveCounts(st) == [z \in ZoneNames |-> _aliveCount(st, z)]

NoCall ==
  [op |-> "init", dt |-> 0, zonesRun |-> FALSE,
   abilityJustUsed |-> FALSE, splits |-> <<>>, thawInRange |-> FALSE,
   reefCaught |-> FALSE, ran |-> <<>>,
   sz0 |-> resetState(1).safeZone, eggs0 |-> <<>>,
   alive0 |-> [z \in ZoneNames |-> 0],
   prevUpdated |-> FALSE, prevInside |-> FALSE, activated |-> FALSE,
   updated |-> FALSE, inside |-> FALSE, held |-> 0, dwell |-> 0,
   used |-> 0, fresh |-> FALSE, frames |-> 0, zoneTime |-> 0]

\* a call other than update and init
OtherCall(name, dt) ==
  [NoCall EXCEPT !.op = name, !.dt = dt, !.sz0 = S.safeZone, !.eggs0 = EggsOf(S),
                 !.alive0 = AliveCounts(S),
                 !.prevUpdated = call.updated, !.prevInside = call.inside,
                 !.updated = call.updated, !.inside = call.inside, !.held = call.held,
                 !.dwell = call.dwell,
                 !.used = call.used, !.fresh = call.fresh, !.frames = call.frames,
                 !.zoneTime = call.zoneTime]

\* InitCall with an init that rebuilds the zones and keeps the safe zone
InitCall_KeepSafeZone(level, rs, dragon) ==
  /\ S' = [init(level, rs) EXCEPT !.safeZone = S.safeZone]
  /\ P' = [P EXCEPT !.currentDragonId = dragon]
  /\ call' = [NoCall EXCEPT !.sz0 = S.safeZone, !.eggs0 = EggsOf(S),
                            !.alive0 = AliveCounts(S)]

\* Enemies.init(level), at a level start; the game sets the level's dragon
InitCall(level, rs, dragon) ==
  /\ S' = init(level, rs)
  /\ P' = [P EXCEPT !.currentDragonId = dragon]
  /\ call' = [NoCall EXCEPT !.sz0 = S.safeZone, !.eggs0 = EggsOf(S),
                            !.alive0 = AliveCounts(S)]

Observed(w, dt) ==
  [op |-> "update", dt |-> dt,
   zonesRun |-> w.zonesRun, abilityJustUsed |-> w.abilityJustUsed,
   splits |-> w.splits, thawInRange |-> w.thawInRange, reefCaught |-> w.reefCaught,
   ran |-> w.ran,
   sz0 |-> S.safeZone, eggs0 |-> EggsOf(S), alive0 |-> AliveCounts(S),
   prevUpdated |-> call.updated, prevInside |-> call.inside, activated |-> call.fresh,
   updated |-> TRUE, inside |-> InsideSafeZone(S.safeZone, P),
   held |-> IF w.thawInRange THEN call.held + dt ELSE 0,
   dwell |-> IF InThawRange(S.glacial.egg, P) /\ InThawRange(w.S.glacial.egg, w.P)
             THEN call.dwell + dt ELSE 0,
   used |-> call.used, fresh |-> FALSE, frames |-> call.frames + 1,
   zoneTime |-> IF w.zonesRun THEN call.zoneTime + dt ELSE call.zoneTime]

Frame(w, dt) ==
  /\ S' = w.S
  /\ P' = w.P
  /\ call' = Observed(w, dt)

\* Enemies.update(dt, player)
Update(dt, rs, tg) == Frame(update(S, P, dt, rs, tg), dt)

\* the game loop moves the player (input handling is the game layer's)
MovePlayer(x, y) ==
  /\ <<x, y>> # <<P.x, P.y>>
  /\ P' = [P EXCEPT !.x = x, !.y = y]
  /\ call' = OtherCall("move", 0)
  /\ UNCHANGED S

Used(out) ==
  /\ S' = out.S
  /\ P' = out.P
  /\ call' = [OtherCall("useAbility", 0) EXCEPT
                !.used = IF AbilityReady(P) THEN @ + 1 ELSE @,
                !.fresh = @ \/ AbilityReady(P)]

\* Player.useAbility(game)
UseAbility == Used(useAbility(S, P))

\* Player.update(dt)
PlayerTick(dt) ==
  /\ P' = PlayerUpdate(P, dt)
  /\ call' = OtherCall("playerUpdate", dt)
  /\ UNCHANGED S

\* a collaborator that holds the state object of getState() sets alive = false
\* on the i-th enemy of a zone (the game layer's damage to enemies)
SetDead(zone, i) ==
  /\ i \in 1 .. Len(S[zone].enemies)
  /\ S[zone].enemies[i].alive
  /\ S' = [S EXCEPT ![zone].enemies[i].alive = FALSE]
  /\ call' = OtherCall("setDead", 0)
  /\ UNCHANGED P

\* a stream of Math.random() draws for Enemies.init: the entities are spread
\* over their zones
InitStream == <<500, 250, 750, 100, 900, 0, 999>>

\* the school targets of a frame: the sweep at its centre
CentreTargets == <<<<0, 0>>>>

\* the length of a short frame, in milliseconds
FrameMs == Sec(1) \div 10

\* the length of a long frame: the ability cooldown, and the spawn period of
\* the Canopy and the Reef
LongMs == Sec(10)

AllEnemies(st) ==
  st.volcanic.enemies \o st.glacial.enemies \o st.canopy.enemies \o st.reef.enemies

XY(list) == [i \in 1 .. Len(list) |-> <<list[i].x, list[i].y>>]

\* where the enemies and the hazards are
Positions(st) ==
  [enemies |-> XY(AllEnemies(st)),
   lavaTrails |-> XY(st.volcanic.lavaTrails),
   geysers |-> XY(st.volcanic.geysers),
   frozenTiles |-> XY(st.glacial.frozenTiles),
   iceBullets |-> XY(st.glacial.iceBullets),
   canopyObstacles |-> XY(st.canopy.obstacles),
   reefObstacles |-> XY(st.reef.obstacles)]

\* the enemy e lies outside the safe zone sz by its own radius or more
KeptOut(sz, e) ==
  Dist2(e.x - sz.x, e.y - sz.y) >= Sq(RadiusOnGrid(sz) + e.radius)

----------------------------------------------------------------------------
(* The safe zone: the player walks in and out of it, over MaxFramesSafe     *)
(* frames of 0 and FrameMs milliseconds                                     *)

MaxFramesSafe == 6

\* the centre, a spot that two entries leave outside the zone, and a spot
\* outside it
SafePositions == {<<Px(1000), Px(1000)>>, <<Px(1075), Px(1000)>>, <<Px(1000), Px(1200)>>}

InitSafe ==
  /\ S = init(1, InitStream)
  /\ P = PlayerInit
  /\ call = NoCall

NextSafe ==
  \/ \E dt \in {0, FrameMs} :
       /\ call.frames < MaxFramesSafe
       /\ Update(dt, <<500>>, CentreTargets)
  \/ \E p \in SafePositions : MovePlayer(p[1], p[2])
  \/ InitCall(1, InitStream, 1)

SpecSafe == InitSafe /\ [][NextSafe]_vars

\* 120 x 0.8^uses, in hundredths of a pixel
RadiusAfter(uses) == (12000 * (8 ^ uses)) \div (10 ^ uses)

\* C7: in every reachable state radius = 120 x 0.8^uses and 0 <= uses <= 3;
\* the zone is inactive exactly when uses has reached 3, where the radius is
\* 61.44, so that the radius < 18 test is never the one that closes it
C7_UseAccounting ==
  /\ S.safeZone.uses \in 0 .. 3
  /\ S.safeZone.maxUses = 3
  /\ S.safeZone.radius = RadiusAfter(S.safeZone.uses)
  /\ S.safeZone.active <=> S.safeZone.uses < 3
  /\ S.safeZone.uses = 3 => S.safeZone.radius = 6144
  /\ S.safeZone.radius >= 1800

C7_Witness ==
  /\ call.op = "update"
  /\ call.sz0.uses = 2
  /\ S.safeZone.uses = 3
  /\ ~S.safeZone.active
  /\ S.safeZone.radius = 6144

\* C3: between init calls the radius never increases, and an inactive safe
\* zone stays inactive, with its uses, its radius and all its other fields
\* as they are
C3_Monotone ==
  [][call'.op # "init" =>
       /\ S'.safeZone.radius <= S.safeZone.radius
       /\ ~S.safeZone.active =>
            /\ ~S'.safeZone.active
            /\ S'.safeZone.uses = S.safeZone.uses
            /\ S'.safeZone.radius = S.safeZone.radius
            /\ S'.safeZone = S.safeZone]_vars

\* an update made on a safe zone that was already inactive
C3_Witness ==
  /\ call.op = "update"
  /\ ~call.sz0.active
  /\ ~S.safeZone.active

\* C8: uses is incremented in an update only when the player was outside at
\* the previous update and is inside at this one
C8_EdgeTriggered ==
  (call.op = "update" /\ S.safeZone.uses # call.sz0.uses) =>
     /\ call.prevUpdated
     /\ ~call.prevInside
     /\ call.inside

----------------------------------------------------------------------------
(* The population: the player of Shadowmend (the pull) or Frostfang (the    *)
(* mass freeze) goes to the Volcanic Wastes and uses its ability once per   *)
(* cooldown, MaxPulls times over MaxFramesPull long frames                  *)

MaxFramesPull == 6
MaxPulls == 3

\* where the player goes: a spot of the Volcanic Wastes clear of the geysers
PullPositions == {<<Px(400), Px(400)>>}

InitPull ==
  /\ S = init(1, InitStream)
  /\ \E d \in {4, 6} : P = [PlayerInit EXCEPT !.currentDragonId = d]
  /\ call = NoCall

NextPull ==
  \/ /\ call.frames < MaxFramesPull
     /\ Update(LongMs, <<500, 250>>, CentreTargets)
  \/ \E p \in PullPositions : MovePlayer(p[1], p[2])
  \/ /\ AbilityReady(P)
     /\ call.used < MaxPulls
     /\ UseAbility
  \/ /\ P.abilityCooldown > 0
     /\ PlayerTick(LongMs)

SpecPull == InitPull /\ [][NextPull]_vars

\* C1: each of the four zones holds at most 6 alive enemies, in every state
\* and so at the end of every update, the ones of several splits included
C1_ZoneCap == \A z \in ZoneNames : _aliveCount(S, z) <= MAX_PER_ZONE

\* an update that found the Canopy full when its spawn was due, after both
\* children of the first split have split in one frame
C1_Witness ==
  /\ call.op = "update"
  /\ call.zonesRun
  /\ call.alive0["canopy"] = MAX_PER_ZONE
  /\ S.canopy.multiplyTimer = 0
  /\ _aliveCount(S, "canopy") = MAX_PER_ZONE
  /\ _aliveCount(S, "reef") = MAX_PER_ZONE
  /\ _aliveCount(S, "volcanic") = 4

\* the Magmawyrm of the split record en was within 200 px of the player, and
\* larger than 0.4, when the split test looked at it
Splitter(en) ==
  /\ Dist2(en.px - en.parent.x, en.py - en.parent.y) <= Sq(Px(200))
  /\ en.parent.sizeMult > 400
Bystander(en) == ~Splitter(en)

\* the enemy e is the Magmawyrm m, wherever the safe zone has put it
SameWyrm(e, m) == [e EXCEPT !.x = 0, !.y = 0] = [m EXCEPT !.x = 0, !.y = 0]

\* the enemy e is a child of the Magmawyrm m
ChildWyrm(e, m) ==
  /\ e.alive /\ ~e.frozen
  /\ e.type = "magmawyrm"
  /\ e.sizeMult * 10 = m.sizeMult * 6
  /\ e.speedBoostMult = m.speedBoostMult
  /\ e.activeEffects = <<>>

\* C6: after an update in which abilityJustUsed is true, the Magmawyrms
\* within 200 px of the player and larger than 0.4 are gone from the list,
\* each replaced by 2 unfrozen children of 0.6 x its size and of its
\* speedBoostMult, and the other Magmawyrms are in the list as they were
C6_Split ==
  (call.op = "update" /\ call.zonesRun /\ call.abilityJustUsed) =>
     /\ Len(call.splits) = call.alive0["volcanic"]
     /\ Len(S.volcanic.enemies) =
          Len(Filter(call.splits, Bystander)) + 2 * Len(Filter(call.splits, Splitter))
     /\ \A j \in 1 .. Len(Filter(call.splits, Bystander)) :
          SameWyrm(S.volcanic.enemies[j], Filter(call.splits, Bystander)[j].parent)
     /\ \A m \in 1 .. Len(Filter(call.splits, Splitter)) :
          \A k \in {2 * m - 1, 2 * m} :
             ChildWyrm(S.volcanic.enemies[Len(Filter(call.splits, Bystander)) + k],
                       Filter(call.splits, Splitter)[m].parent)

\* a frame in which two boosted Magmawyrms have split at once
C6_Witness ==
  /\ call.op = "update"
  /\ call.zonesRun
  /\ call.abilityJustUsed
  /\ Len(Filter(call.splits, Splitter)) = 2
  /\ call.splits[1].parent.speedBoostMult > 1000
  /\ Len(S.volcanic.enemies) = 4

\* the player is not where the previous update saw it
Displaced(st, player) ==
  st.prevPX # Null /\ (Some(player.x) # st.prevPX \/ Some(player.y) # st.prevPY)

\* C12: playerMoved turns true in the first update that finds the player
\* away from where the previous update saw it, in no other call, and stays
\* true; until then every enemy is frozen, and from then on every enemy of
\* every zone, the spawned Thornwyrms and Tidewyrms and the split children
\* included, has frozen = false
C12_OneThaw ==
  /\ [](\A i \in 1 .. Len(AllEnemies(S)) : AllEnemies(S)[i].frozen = ~S.playerMoved)
  /\ [][(S.playerMoved /\ call'.op # "init") => S'.playerMoved]_vars
  /\ [][(~S.playerMoved /\ S'.playerMoved) =>
          (call'.op = "update" /\ Displaced(S, P))]_vars
  /\ [][(~S.playerMoved /\ call'.op = "update" /\ Displaced(S, P)) =>
          S'.playerMoved]_vars

\* after the first move: an update that has split a Magmawyrm, with
\* Thornwyrms and Tidewyrms spawned since
C12_Witness ==
  /\ call.op = "update"
  /\ S.playerMoved
  /\ Len(Filter(call.splits, Splitter)) >= 1
  /\ Len(S.volcanic.enemies) >= 2
  /\ Len(S.canopy.enemies) > 2
  /\ Len(S.reef.enemies) > 3

----------------------------------------------------------------------------
(* The centre of the safe zone: Shadowmend's player stands on it, or south  *)
(* of it, and pulls the enemies onto itself, in short frames                *)

MaxTicksCentre == 3
MaxPullsCentre == 1

CentrePositions == {<<CENTER_X, CENTER_Y>>, <<Px(1000), Px(1200)>>}

InitCentre ==
  /\ S = init(1, InitStream)
  /\ P = [PlayerInit EXCEPT !.currentDragonId = 4]
  /\ call = NoCall

NextCentre ==
  \/ /\ S.time + FrameMs <= MaxTicksCentre * FrameMs
     /\ Update(FrameMs, <<500, 250>>, CentreTargets)
  \/ \E p \in CentrePositions : MovePlayer(p[1], p[2])
  \/ /\ AbilityReady(P)
     /\ call.used < MaxPullsCentre
     /\ UseAbility
  \/ /\ P.abilityCooldown > 0
     /\ PlayerTick(LongMs)

SpecCentre == InitCentre /\ [][NextCentre]_vars

\* C2: after an update that ran the zones on an active safe zone, every
\* alive enemy is at safeZone.radius + enemy.radius or more from its centre
C2_KeptOut ==
  (call.op = "update" /\ call.zonesRun /\ S.safeZone.active) =>
     \A i \in 1 .. Len(AllEnemies(S)) :
        AllEnemies(S)[i].alive => KeptOut(S.safeZone, AllEnemies(S)[i])

----------------------------------------------------------------------------
(* Before the first move: MaxFramesStill frames of every length, zero       *)
(* included, around the first displacement of the player                    *)

MaxFramesStill == 4

StillPositions == {<<Px(1000), Px(1000)>>, <<Px(1500), Px(500)>>}

InitStill ==
  /\ S = init(1, InitStream)
  /\ P = [PlayerInit EXCEPT !.currentDragonId = 4]
  /\ call = NoCall

NextStill ==
  \/ \E dt \in {0, FrameMs, LongMs} :
       /\ call.frames < MaxFramesStill
       /\ Update(dt, <<500, 250>>, CentreTargets)
  \/ \E p \in StillPositions : MovePlayer(p[1], p[2])
  \/ /\ AbilityReady(P)
     /\ UseAbility

SpecStill == InitStill /\ [][NextStill]_vars

\* C4: an update that leaves playerMoved false, whatever its dt, moves no
\* enemy and no hazard
C4_StillUntilMoved ==
  [][(call'.op = "update" /\ ~S'.playerMoved) => Positions(S') = Positions(S)]_vars

\* a long frame after a frame of zero length, with the player where it was
C4_Witness ==
  /\ call.op = "update"
  /\ call.prevUpdated
  /\ call.dt = LongMs
  /\ ~call.zonesRun
  /\ ~S.playerMoved
  /\ S.time = LongMs

----------------------------------------------------------------------------
(* The Glacial egg: the player steps in and out of its thawing reach, over  *)
(* MaxFramesThaw frames of half a second and of a second                    *)

MaxFramesThaw == 5

\* a spot 20 px from the egg, and one 100 px from it
ThawPositions == {<<Px(1800), Px(270)>>, <<Px(1800), Px(350)>>}

InitThaw ==
  /\ S = init(1, InitStream)
  /\ P = PlayerInit
  /\ call = NoCall

NextThaw ==
  \/ \E dt \in {Sec(1) \div 2, Sec(1)} :
       /\ call.frames < MaxFramesThaw
       /\ Update(dt, <<500, 250>>, CentreTargets)
  \/ \E p \in ThawPositions : MovePlayer(p[1], p[2])

SpecThaw == InitThaw /\ [][NextThaw]_vars

\* C9 as it reads: a player held in reach of the Glacial egg over updates
\* whose dt sums to 2.0 s has collected it
C9_Dwell == call.dwell >= Sec(2) => S.glacial.egg.collected

\* C9, for the updates that run the zones: in reach of the egg thawTimer
\* grows by dt and the egg is collected in the first update that brings it
\* to thawRequired, so that 2.0 s held in reach collect it; out of reach
\* thawTimer falls by dt / 2, down to 0 and no further; and before the first
\* move of the player the egg is left as it is
C9_Thaw ==
  /\ S.glacial.egg.collected <=> S.glacial.egg.thawTimer >= Sec(2)
  /\ S.glacial.egg.thawTimer >= 0
  /\ call.held >= Sec(2) => S.glacial.egg.collected
  /\ (call.op = "update" /\ ~call.eggs0[2].collected) =>
        /\ (call.zonesRun /\ call.thawInRange) =>
              S.glacial.egg.thawTimer = call.eggs0[2].thawTimer + call.dt
        /\ (call.zonesRun /\ ~call.thawInRange) =>
              /\ 2 * S.glacial.egg.thawTimer
                   = Max(0, 2 * call.eggs0[2].thawTimer - call.dt)
              /\ ~S.glacial.egg.collected
        /\ ~call.zonesRun => S.glacial.egg = call.eggs0[2]

\* the egg is collected by a thaw that was interrupted and had half faded
C9_Witness ==
  /\ call.op = "update"
  /\ S.glacial.egg.collected
  /\ ~call.eggs0[2].collected
  /\ call.held < Sec(2)
  /\ S.glacial.egg.thawTimer > Sec(2)

----------------------------------------------------------------------------
(* The eggs: the player goes from egg to egg, over MaxFramesEggs frames of  *)
(* two seconds                                                              *)

MaxFramesEggs == 5

\* the Canopy egg's host, a spot in reach of the Glacial egg, and a spot on
\* the Reef egg's course
EggPositions ==
  {<<Px(1685), Px(1204)>>, <<Px(1800), Px(270)>>, <<Px(625), Px(1570)>>}

InitEggs ==
  /\ S = init(1, InitStream)
  /\ P = PlayerInit
  /\ call = NoCall

NextEggs ==
  \/ /\ call.frames < MaxFramesEggs
     /\ Update(Sec(2), <<500, 250>>, CentreTargets)
  \/ \E p \in EggPositions : MovePlayer(p[1], p[2])

SpecEggs == InitEggs /\ [][NextEggs]_vars

\* C5: an update leaves a collected Glacial, Canopy or Reef egg as it is
C5_Terminal ==
  [][call'.op = "update" =>
       \A k \in 2 .. 4 : EggsOf(S)[k].collected => EggsOf(S')[k] = EggsOf(S)[k]]_vars

\* an update made with the three eggs collected
C5_Witness ==
  /\ call.op = "update"
  /\ call.zonesRun
  /\ \A k \in 2 .. 4 : call.eggs0[k].collected

\* C10: the Reef egg becomes collected only in an update that leaves it
\* within player.radius + 18 of the player
C10_OnOverlap ==
  (call.op = "update" /\ S.reef.egg.collected /\ ~call.eggs0[4].collected) =>
     Dist2(P.x - S.reef.egg.x, P.y - S.reef.egg.y) <= Sq(P.radius + Px(18))

\* the Reef egg caught, after frames in which it drifted out of reach of the
\* player uncaught
C10_Witness ==
  /\ call.op = "update"
  /\ S.reef.egg.collected
  /\ ~call.eggs0[4].collected
  /\ call.frames >= 3

----------------------------------------------------------------------------
(* The levels: Shadowmend's player thaws the Glacial egg and pulls the      *)
(* enemies onto itself, MaxPullsLevels times over the MaxFramesLevels long  *)
(* frames of a level, and the game starts the next level, up to level       *)
(* MaxLevel                                                                 *)

MaxFramesLevels == 3
MaxPullsLevels == 1
MaxLevel == 2

\* a spot in reach of the Glacial egg
LevelPositions == {<<Px(1800), Px(270)>>}

\* another stream of Math.random() draws for Enemies.init
NextStream == <<250, 800, 50, 600>>

InitLevels ==
  /\ S = init(1, InitStream)
  /\ P = [PlayerInit EXCEPT !.currentDragonId = 4]
  /\ call = NoCall

NextLevels ==
  \/ /\ call.frames < MaxFramesLevels
     /\ Update(LongMs, <<500, 250>>, CentreTargets)
  \/ \E p \in LevelPositions : MovePlayer(p[1], p[2])
  \/ /\ AbilityReady(P)
     /\ call.used < MaxPullsLevels
     /\ UseAbility
  \/ /\ P.abilityCooldown > 0
     /\ PlayerTick(LongMs)
  \/ \E rs \in {InitStream, NextStream} :
       /\ S.level < MaxLevel
       /\ InitCall(S.level + 1, rs, 4)

SpecLevels == InitLevels /\ [][NextLevels]_vars

\* every enemy of the list is as its factory makes it at the level of st:
\* alive, frozen, without effects, at its base speed
AsMade(st, list, baseSpeed) ==
  \A i \in 1 .. Len(list) :
     /\ list[i].alive /\ list[i].frozen
     /\ list[i].activeEffects = <<>>
     /\ list[i].speed = DivR(baseSpeed * SpeedMultOf(st.level), 1000)

\* C11: after init(level), whatever the state before it, time = 0,
\* playerMoved = false, the safe zone is active with radius 120 and uses 0,
\* the zones hold 1 / 1 / 2 / 3 enemies, all alive, frozen and without
\* effects, there are no lava trails and no ice bullets, the hazards are the
\* 5 dormant geysers, the 6 seed tiles, 5 foliage and 4 bouncing obstacles,
\* every timer and escalation counter is at its initial value and every egg
\* is uncollected
C11_Rebuilt ==
  call.op = "init" =>
     /\ S.time = 0 /\ ~S.playerMoved
     /\ S.prevPX = Null /\ S.prevPY = Null /\ S.prevAbilityCooldown = 0
     /\ S.safeZone = [x |-> CENTER_X, y |-> CENTER_Y, radius |-> 12000, uses |-> 0,
                      maxUses |-> 3, active |-> TRUE, playerWasInside |-> FALSE]
     /\ Len(S.volcanic.enemies) = 1 /\ Len(S.glacial.enemies) = 1
     /\ Len(S.canopy.enemies) = 2 /\ Len(S.reef.enemies) = 3
     /\ AsMade(S, S.volcanic.enemies, Px(60)) /\ AsMade(S, S.glacial.enemies, Px(30))
     /\ AsMade(S, S.canopy.enemies, Px(80)) /\ AsMade(S, S.reef.enemies, Px(70))
     /\ S.volcanic.enemies[1].sizeMult = 1000
     /\ S.volcanic.enemies[1].speedBoostMult = 1000
     /\ S.volcanic.enemies[1].trailTimer = 0
     /\ S.glacial.enemies[1].expandTimer = 0
     /\ S.glacial.enemies[1].expandRadius = Px(50)
     /\ \A i \in 1 .. 2 : /\ ~S.canopy.enemies[i].visible
                          /\ ~S.canopy.enemies[i].lunging
                          /\ S.canopy.enemies[i].teleportRange = Px(150)
     /\ S.volcanic.lavaTrails = <<>> /\ S.glacial.iceBullets = <<>>
     /\ Len(S.volcanic.geysers) = 5
     /\ \A i \in 1 .. 5 : /\ ~S.volcanic.geysers[i].erupting
                          /\ S.volcanic.geysers[i].timer \in 0 .. Sec(5) - 1
     /\ Len(S.glacial.frozenTiles) = 6
     /\ Len(S.canopy.obstacles) = 5 /\ Len(S.reef.obstacles) = 4
     /\ S.volcanic.speedTimer = 0 /\ S.glacial.bulletCooldown = 0
     /\ S.canopy.multiplyTimer = 0 /\ S.canopy.teleportTimer = 0
     /\ S.canopy.teleportRange = Px(150)
     /\ S.canopy.escalateTimer = 0 /\ S.canopy.escalateWave = 0
     /\ S.reef.multiplyTimer = 0 /\ S.reef.waveTimer = 0
     /\ S.reef.waveComplexity = 0 /\ S.reef.wavePhase = 0
     /\ S.volcanic.visualPhase = 0 /\ S.canopy.visualPhase = 0 /\ S.reef.visualPhase = 0
     /\ \A k \in 1 .. 4 : ~EggsOf(S)[k].collected
     /\ S.glacial.egg.thawTimer = 0
     /\ ~S.canopy.egg._visible

\* level 2 started on a level 1 that had a used safe zone, a collected egg,
\* split Magmawyrms and grown populations
C11_Witness ==
  /\ call.op = "init"
  /\ S.level = 2
  /\ call.sz0.uses > 0
  /\ call.eggs0[2].collected
  /\ call.alive0["volcanic"] = 2
  /\ call.alive0["canopy"] > 2
  /\ call.alive0["reef"] > 3

----------------------------------------------------------------------------
(* The dead: the game layer kills enemies between the updates, over         *)
(* MaxFramesDead short frames                                               *)

MaxFramesDead == 3

DeadPositions == {<<Px(1000), Px(1200)>>}

InitDead ==
  /\ S = init(1, InitStream)
  /\ P = PlayerInit
  /\ call = NoCall

NextDead ==
  \/ /\ call.frames < MaxFramesDead
     /\ Update(FrameMs, <<500, 250>>, CentreTargets)
  \/ \E p \in DeadPositions : MovePlayer(p[1], p[2])
  \/ \E zone \in ZoneNames, i \in 1 .. 3 : SetDead(zone, i)

SpecDead == InitDead /\ [][NextDead]_vars

\* C13: at the end of an update that ran the zones no enemy list holds an
\* enemy with alive = false
C13_Purged ==
  (call.op = "update" /\ call.zonesRun) =>
     \A i \in 1 .. Len(AllEnemies(S)) : AllEnemies(S)[i].alive

\* C15: no direction of update is taken over a zero distance unguarded, so no
\* ice bullet ever holds a not-a-number velocity
C15_NoNaN ==
  \A i \in 1 .. Len(S.glacial.iceBullets) : ~S.glacial.iceBullets[i].nan

\* the geysers after a tick of dt each
Ticked(geysers, dt) == [i \in 1 .. Len(geysers) |-> GeyserTick(geysers[i], dt)]

\* C17 as stated: in an update that leaves playerMoved false the geyser timers
\* and the lava-trail lives still advance by dt
C17_TimersTick ==
  [][(call'.op = "update" /\ ~S'.playerMoved) =>
       /\ S'.volcanic.geysers = Ticked(S.volcanic.geysers, call'.dt)
       /\ S'.volcanic.lavaTrails = LavaTick(S.volcanic.lavaTrails, call'.dt)]_vars

\* C17: an update that leaves playerMoved false skips the zones entirely:
\* geyser timers, lava trails and every other field of the four zones keep
\* their values, the visual phases apart; the geyser timers and the lives of
\* the lava trails advance by dt in exactly the updates that run the zones
C17_Paused ==
  [][call'.op = "update" =>
       IF S'.playerMoved
       THEN /\ S'.volcanic.geysers = Ticked(S.volcanic.geysers, call'.dt)
            /\ SubSeq(S'.volcanic.lavaTrails, 1,
                      Len(LavaTick(S.volcanic.lavaTrails, call'.dt)))
                 = LavaTick(S.volcanic.lavaTrails, call'.dt)
       ELSE /\ [S'.volcanic EXCEPT !.visualPhase = S.volcanic.visualPhase] = S.volcanic
            /\ S'.glacial = S.glacial
            /\ [S'.canopy EXCEPT !.visualPhase = S.canopy.visualPhase] = S.canopy
            /\ [S'.reef EXCEPT !.visualPhase = S.reef.visualPhase] = S.reef]_vars

\* two frames of positive length have passed on a player that has not moved,
\* and the geysers are as init made them
C17_Witness ==
  /\ call.op = "update"
  /\ call.dt > 0
  /\ call.frames >= 2
  /\ ~S.playerMoved
  /\ S.time >= 2 * FrameMs
  /\ S.volcanic.geysers = init(1, InitStream).volcanic.geysers

\* C28: at the end of an update every ice bullet of the list is alive and
\* inside the map, so that its flight takes it out of the list
C28_InMap ==
  call.op = "update" =>
     \A i \in 1 .. Len(S.glacial.iceBullets) :
        LET b == S.glacial.iceBullets[i]
        IN b.alive /\ ~b.nan /\ b.x >= 0 /\ b.x <= MAP_W /\ b.y >= 0 /\ b.y <= MAP_H

\* C18: an update observes abilityJustUsed = true exactly when an ability
\* has been activated since the update before it
C18_Observed ==
  call.op = "update" => (call.abilityJustUsed <=> call.activated)

----------------------------------------------------------------------------
(* The order of the steps: Shadowmend's player stands in the safe zone,     *)
(* pulls the enemies onto itself, and steps aside onto the lava trail the   *)
(* Magmawyrm has left there, over MaxFramesOrder frames of half a second    *)

MaxFramesOrder == 4
MaxPullsOrder == 1

\* the centre, a spot 60 px south of it and one 70 px south of it
OrderPositions == {<<CENTER_X, CENTER_Y>>, <<Px(1000), Px(1060)>>, <<Px(1000), Px(1070)>>}

InitOrder ==
  /\ S = init(1, InitStream)
  /\ P = [PlayerInit EXCEPT !.currentDragonId = 4]
  /\ call = NoCall

NextOrder ==
  \/ /\ call.frames < MaxFramesOrder
     /\ Update(Sec(1) \div 2, <<500, 250>>, CentreTargets)
  \/ \E p \in OrderPositions : MovePlayer(p[1], p[2])
  \/ /\ AbilityReady(P)
     /\ call.used < MaxPullsOrder
     /\ UseAbility

SpecOrder == InitOrder /\ [][NextOrder]_vars

\* the zones of the log, in the order in which they ran
ZonesOf(ran) == [k \in 1 .. Len(ran) |-> ran[k].zone]

\* C14: in every update the safe zone is updated once, on the player as the
\* update was called, before playerMoved is true as well as after; the zones
\* run exactly when playerMoved is true, once each, in the order Volcanic,
\* Glacial, Canopy, Reef, and each reads the player as the zone before it
\* left it
C14_Order ==
  [][call'.op = "update" =>
       /\ call'.zonesRun = S'.playerMoved
       /\ S.safeZone.active =>
            /\ S'.safeZone.playerWasInside = InsideSafeZone(S.safeZone, P)
            /\ S'.safeZone.uses =
                 IF InsideSafeZone(S.safeZone, P) /\ ~S.safeZone.playerWasInside
                 THEN S.safeZone.uses + 1 ELSE S.safeZone.uses
       /\ IF S'.playerMoved
          THEN /\ ZonesOf(call'.ran) = <<"volcanic", "glacial", "canopy", "reef">>
               /\ call'.ran[1].x0 = P.x /\ call'.ran[1].y0 = P.y
               /\ \A k \in 1 .. 3 : /\ call'.ran[k + 1].x0 = call'.ran[k].x1
                                    /\ call'.ran[k + 1].y0 = call'.ran[k].y1
               /\ call'.ran[4].x1 = P'.x /\ call'.ran[4].y1 = P'.y
          ELSE /\ call'.ran = <<>>
               /\ P' = P]_vars

\* a frame in which the safe zone has found the player inside, the Volcanic
\* Wastes then have pushed it out of a lava trail, and the later zones have
\* read it there, outside the safe zone
C14_Witness ==
  /\ call.op = "update"
  /\ call.zonesRun
  /\ S.safeZone.active
  /\ S.safeZone.playerWasInside
  /\ call.ran[1].y1 # call.ran[1].y0
  /\ call.ran[2].y0 = P.y
  /\ ~InsideSafeZone(S.safeZone, P)

----------------------------------------------------------------------------
(* Ice bullets: the player stands south of the Frostwyrm, within its range, *)
(* over MaxFramesBullet frames of one second                                *)

MaxFramesBullet == 4

\* 200, 290 and 420 px south of the Frostwyrm's spawn point
BulletPositions ==
  {<<Px(1500), Px(700)>>, <<Px(1500), Px(790)>>, <<Px(1500), Px(920)>>}

InitBullet ==
  /\ S = init(1, InitStream)
  /\ P = PlayerInit
  /\ call = NoCall

NextBullet ==
  \/ /\ call.frames < MaxFramesBullet
     /\ Update(Sec(1), <<500, 250>>, CentreTargets)
  \/ \E p \in BulletPositions : MovePlayer(p[1], p[2])

SpecBullet == InitBullet /\ [][NextBullet]_vars

DeadCount(player) ==
  Cardinality({i \in 1 .. Len(player.activeEffects) :
                 player.activeEffects[i].type = "dead"})

\* the bullets of the list that touch the player once moved by dt
InContact(bullets, player, dt) ==
  {i \in 1 .. Len(bullets) : BulletHits(BulletMove(bullets[i], dt), player)}

\* C27: the Glacial Peaks hold one Frostwyrm.  In an update that runs the
\* zones it creates at most one bullet, and creates one exactly when it is
\* alive, the cooldown less dt is 0 or below and the player, as the zone
\* reads it, is within 300 px of it after its drift; the cooldown is then
\* 2 s, it is 0.5 s after a check with the player out of range, and runs
\* down by dt otherwise, so that two bullets are 2 s of simulated time apart
\* or more; no other call changes the cooldown
C27_Cooldown ==
  [][IF call'.op = "update" /\ S'.playerMoved
     THEN LET e == S.glacial.enemies[1]
              g == call'.ran[2]
              at == [x |-> e.x + g.steps[1].dx, y |-> e.y + g.steps[1].dy]
              near == Dist2(g.x0 - at.x, g.y0 - at.y) <= Sq(Px(300))
              left == S.glacial.bulletCooldown - call'.dt
          IN /\ Len(S'.glacial.enemies) = 1
             /\ g.fired = IF e.alive /\ left <= 0 /\ near THEN 1 ELSE 0
             /\ S'.glacial.bulletCooldown =
                  IF ~e.alive THEN S.glacial.bulletCooldown
                  ELSE IF left > 0 THEN left
                  ELSE IF near THEN Sec(2) ELSE Sec(1) \div 2
     ELSE call'.op # "init" =>
            /\ S'.glacial.bulletCooldown = S.glacial.bulletCooldown
            /\ S'.glacial.iceBullets = S.glacial.iceBullets]_vars

\* the Frostwyrm has fired for the second time, two seconds after the first:
\* both bullets have hit the player
C27_Witness ==
  /\ call.op = "update"
  /\ call.zonesRun
  /\ call.ran[2].fired = 1
  /\ call.ran[2].hits = 1
  /\ S.glacial.bulletCooldown = Sec(2)
  /\ Len(P.activeEffects) = 2

\* C16: in an update that runs the zones, every bullet that is in contact
\* with the player after its move appends exactly one dead effect to the
\* player's effects and is gone from the list when the update returns; the
\* death changes nothing else: the other fields of the player keep their
\* values and the frame runs all four zones, also on a player already dead
C16_Contact ==
  [][(call'.op = "update" /\ S'.playerMoved) =>
       LET g == call'.ran[2]
           at == [P EXCEPT !.x = g.x0, !.y = g.y0]
           old == Cardinality(InContact(S.glacial.iceBullets, at, call'.dt))
       IN /\ P'.activeEffects = P.activeEffects \o [k \in 1 .. g.hits |-> DeadEffect]
          /\ g.hits >= old
          /\ g.hits <= old + Len(S.glacial.enemies)
          /\ Len(S'.glacial.iceBullets) + g.hits
               <= Len(S.glacial.iceBullets) + Len(S.glacial.enemies)
          /\ InContact(S'.glacial.iceBullets, at, 0) = {}
          /\ [P' EXCEPT !.x = P.x, !.y = P.y, !.activeEffects = P.activeEffects] = P
          /\ Len(call'.ran) = 4
          /\ S'.time = S.time + call'.dt]_vars

\* a frame on a player already dead in which a bullet hits it again and is
\* removed
C16_Witness ==
  /\ call.op = "update"
  /\ call.zonesRun
  /\ call.ran[2].hits = 1
  /\ DeadCount(P) = 2
  /\ S.glacial.iceBullets = <<>>

----------------------------------------------------------------------------
(* Frozen enemies: Frostfang's player freezes every enemy for four seconds, *)
(* or Shadowmend's pulls them in and freezes them for five, over            *)
(* MaxFramesFrozen frames of half a second                                  *)

MaxFramesFrozen == 4
MaxPullsFrozen == 1

FrozenPositions == {<<CENTER_X, CENTER_Y>>, <<Px(1000), Px(1200)>>}

InitFrozen ==
  /\ S = init(1, InitStream)
  /\ \E d \in {4, 6} : P = [PlayerInit EXCEPT !.currentDragonId = d]
  /\ call = NoCall

NextFrozen ==
  \/ /\ call.frames < MaxFramesFrozen
     /\ Update(Sec(1) \div 2, <<500, 250>>, CentreTargets)
  \/ \E p \in FrozenPositions : MovePlayer(p[1], p[2])
  \/ /\ AbilityReady(P)
     /\ call.used < MaxPullsFrozen
     /\ UseAbility

SpecFrozen == InitFrozen /\ [][NextFrozen]_vars

\* the steps of the frame's log, all zones together
AllSteps(ran) ==
  IF Len(ran) = 4 THEN ran[1].steps \o ran[2].steps \o ran[3].steps \o ran[4].steps
  ELSE <<>>

\* C19: an enemy that holds a freeze or stun effect after the frame's effect
\* tick makes no move of its own in that update, whatever its type
C19_Blocked ==
  \A i \in 1 .. Len(AllSteps(call.ran)) :
     AllSteps(call.ran)[i].blocked =>
        (AllSteps(call.ran)[i].dx = 0 /\ AllSteps(call.ran)[i].dy = 0)

\* C20: a Magmawyrm that holds a freeze or stun effect after the frame's
\* effect tick drops no lava trail in that update
C20_NoTrail ==
  \A i \in 1 .. Len(AllSteps(call.ran)) :
     (AllSteps(call.ran)[i].type = "magmawyrm" /\ AllSteps(call.ran)[i].blocked)
        => ~AllSteps(call.ran)[i].drop

----------------------------------------------------------------------------
(* Effects: Frostfang's player freezes and slows every enemy, Verdenwing's  *)
(* turns invisible, an ice bullet kills the player, and the effects are     *)
(* ticked by Enemies.update and Player.update in frames of one or two       *)
(* seconds                                                                  *)

MaxFramesEffects == 4
MaxPullsEffects == 1

EffectsPositions == {<<Px(1500), Px(700)>>}

InitEffects ==
  /\ S = init(1, InitStream)
  /\ \E d \in {2, 6} : P = [PlayerInit EXCEPT !.currentDragonId = d]
  /\ call = NoCall

NextEffects ==
  \/ \E dt \in {Sec(1), Sec(2)} :
       /\ call.frames < MaxFramesEffects
       /\ Update(dt, <<500, 250>>, CentreTargets)
  \/ \E p \in EffectsPositions : MovePlayer(p[1], p[2])
  \/ /\ AbilityReady(P)
     /\ call.used < MaxPullsEffects
     /\ UseAbility
  \/ \E dt \in {Sec(1), Sec(2)} :
       /\ P.activeEffects # <<>>
       /\ PlayerTick(dt)

SpecEffects == InitEffects /\ [][NextEffects]_vars

Permanent(eff) == eff.duration = Infinity
Finite(eff) == eff.duration # Infinity

\* what a tick of dt leaves of a list of effects: the permanent ones as they
\* are, the finite ones that outlast dt with dt less, in their order
Outlasts(eff) == Permanent(eff) \/ eff.duration > 0
Aged(effs, dt) ==
  Filter([i \in 1 .. Len(effs) |->
            IF Permanent(effs[i]) THEN effs[i]
            ELSE [effs[i] EXCEPT !.duration = effs[i].duration - dt]],
         Outlasts)

\* enemy by enemy, the effects of the second list are those of the first
\* after a tick of dt
AgedIn(before, after, dt) ==
  /\ Len(after) >= Len(before)
  /\ \A i \in 1 .. Len(before) :
        after[i].activeEffects = Aged(before[i].activeEffects, dt)

NoSplit(splits) == \A i \in 1 .. Len(splits) : ~splits[i].split

\* C21: Player.update ages the player's effects and an update that runs the
\* zones ages those of every enemy: a permanent effect stays as it is, a
\* finite one loses dt and is gone in the tick that brings it to 0 or below;
\* an update leaves the player's effects alone apart from the dead effects it
\* appends, and an update that skips the zones leaves the enemies' alone
C21_Effects ==
  [][/\ call'.op = "playerUpdate" => P'.activeEffects = Aged(P.activeEffects, call'.dt)
     /\ call'.op = "update" =>
          /\ Len(P'.activeEffects) >= Len(P.activeEffects)
          /\ SubSeq(P'.activeEffects, 1, Len(P.activeEffects)) = P.activeEffects
          /\ \A i \in Len(P.activeEffects) + 1 .. Len(P'.activeEffects) :
                P'.activeEffects[i] = DeadEffect
          /\ LET dt == IF S'.playerMoved THEN call'.dt ELSE 0
             IN /\ AgedIn(S.glacial.enemies, S'.glacial.enemies, dt)
                /\ AgedIn(S.canopy.enemies, S'.canopy.enemies, dt)
                /\ AgedIn(S.reef.enemies, S'.reef.enemies, dt)
                /\ NoSplit(call'.splits) =>
                     AgedIn(S.volcanic.enemies, S'.volcanic.enemies, dt)]_vars

\* Player.update has ticked a dead player, and every Frostwyrm has lost its
\* freeze and keeps its permanent slow
C21_Witness ==
  /\ call.op = "playerUpdate"
  /\ P.activeEffects = <<DeadEffect>>
  /\ \A i \in 1 .. Len(S.glacial.enemies) :
        /\ Len(S.glacial.enemies[i].activeEffects) = 1
        /\ S.glacial.enemies[i].activeEffects[1].type = "permanentSlow"
        /\ S.glacial.enemies[i].activeEffects[1].duration = Infinity

----------------------------------------------------------------------------
(* The Ancient Canopy: Shadowmend's player leaves the centre of the map,    *)
(* comes within 100 px of a Thornwyrm, stays, or leaves the zone to the     *)
(* north, in frames of 0.3 s and 10 s                                       *)

MaxFramesCanopy == 4
MaxPullsCanopy == 1

\* a spot 100 px north of the second Thornwyrm, and a spot north of the Canopy
CanopyPositions == {<<Px(1500), Px(1235)>>, <<Px(1500), Px(900)>>}

InitCanopy ==
  /\ S = init(1, InitStream)
  /\ P = [PlayerInit EXCEPT !.currentDragonId = 4]
  /\ call = NoCall

NextCanopy ==
  \/ \E dt \in {3 * FrameMs, LongMs} :
       /\ call.frames < MaxFramesCanopy
       /\ Update(dt, <<500, 250>>, CentreTargets)
  \/ \E p \in CanopyPositions : MovePlayer(p[1], p[2])
  \/ /\ AbilityReady(P)
     /\ call.used < MaxPullsCanopy
     /\ UseAbility

SpecCanopy == InitCanopy /\ [][NextCanopy]_vars

\* the vector of a lunge from e at the player
LungeAt(e, player) ==
  <<Along(UnitVec(player.x - e.x, player.y - e.y)[1], DivR(e.speed * 25, 10)),
    Along(UnitVec(player.x - e.x, player.y - e.y)[2], DivR(e.speed * 25, 10))>>

\* the chase step of e at the player, e's effects ticked by dt first
ChaseStep(e, player, dt) ==
  LET t == [e EXCEPT !.activeEffects = TickEffectList(@, dt)]
  IN <<_chasePlayer(t, player, dt).x - e.x, _chasePlayer(t, player, dt).y - e.y>>

\* C22: a Thornwyrm goes from hidden to lunging to chasing and never back.
\* Across an update, for each Thornwyrm of the list: visible stays true;
\* lunging implies visible; a hidden one is revealed exactly when the zones
\* run, it is alive and the player, as the Canopy reads it, is within 150 px,
\* and its lunge vector is then aimed at that player at 2.5 times its speed;
\* a visible one keeps its lunge vector and never starts lunging again; a
\* visible one that is not lunging makes the step of the direct chase.  An
\* ability changes none of visible, lunging and the lunge vector
C22_Lifecycle ==
  [][\A i \in 1 .. Len(S.canopy.enemies) :
       LET e == S.canopy.enemies[i]
           f == S'.canopy.enemies[i]
           pl == [x |-> call'.ran[3].x0, y |-> call'.ran[3].y0]
       IN /\ call'.op = "update" =>
               /\ e.visible => f.visible
               /\ f.lunging => f.visible
               /\ e.visible => /\ f.lungeVx = e.lungeVx
                               /\ f.lungeVy = e.lungeVy
                               /\ f.lunging => e.lunging
               /\ ~e.visible =>
                    /\ f.visible <=>
                         /\ S'.playerMoved
                         /\ e.alive
                         /\ Dist2(pl.x - e.x, pl.y - e.y) <= Sq(Px(150))
                    /\ f.visible => <<f.lungeVx, f.lungeVy>> = LungeAt(e, pl)
                    /\ ~f.visible => (~f.lunging /\ f.lungeVx = 0 /\ f.lungeVy = 0)
               /\ (S'.playerMoved /\ e.alive /\ e.visible /\ ~e.lunging) =>
                    <<call'.ran[3].steps[i].dx, call'.ran[3].steps[i].dy>>
                      = ChaseStep(e, pl, call'.dt)
          /\ call'.op = "useAbility" =>
               /\ f.visible = e.visible
               /\ f.lunging = e.lunging
               /\ f.lungeVx = e.lungeVx /\ f.lungeVy = e.lungeVy]_vars

\* a Thornwyrm that has lunged north past the player and, its lunge over, has
\* chased the player back south
C22_Witness ==
  /\ call.op = "update"
  /\ call.zonesRun
  /\ \E i \in 1 .. Len(S.canopy.enemies) :
        /\ S.canopy.enemies[i].visible
        /\ ~S.canopy.enemies[i].lunging
        /\ S.canopy.enemies[i].lungeVy < 0
        /\ call.ran[3].steps[i].dy > 0

\* C23 as stated: at the end of an update that ran the zones every alive
\* lunging Thornwyrm is within the Canopy's teleportRange of the player
C23_InRange ==
  (call.op = "update" /\ call.zonesRun) =>
     \A i \in 1 .. Len(S.canopy.enemies) :
        (S.canopy.enemies[i].alive /\ S.canopy.enemies[i].lunging) =>
           Dist2(P.x - S.canopy.enemies[i].x, P.y - S.canopy.enemies[i].y)
             <= Sq(S.canopy.teleportRange)

\* the point at 0.75 of range from the player on the bearing from the
\* player to the point at
Relocation(player, at, range) ==
  <<player.x - Along(UnitVec(player.x - at[1], player.y - at[2])[1], DivR(range * 75, 100)),
    player.y - Along(UnitVec(player.x - at[1], player.y - at[2])[2], DivR(range * 75, 100))>>

\* the point is in the Canopy inset by the radius of e and clear of the safe
\* zone, so that neither the clamp nor the repulsion moves e from it
Unmoved(st, e, at) ==
  /\ at[1] >= ZONES.canopy.x + e.radius
  /\ at[1] <= ZONES.canopy.x + ZONES.canopy.w - e.radius
  /\ at[2] >= ZONES.canopy.y + e.radius
  /\ at[2] <= ZONES.canopy.y + ZONES.canopy.h - e.radius
  /\ (st.safeZone.active =>
        Dist2(at[1] - st.safeZone.x, at[2] - st.safeZone.y)
          >= Sq(RadiusOnGrid(st.safeZone) + e.radius))

\* C23: in an update that runs the zones the teleport range grows by 50 px
\* if its timer has reached 5 s and is then the range of every Thornwyrm; a
\* Thornwyrm that is alive and still lunging after its lunge step is, before
\* the clamp to the zone, within that range of the player: one found farther
\* away is at 0.75 of the range from the player on the bearing from the
\* player to it; it ends the update there if the point is in the Canopy and
\* clear of the safe zone
C23_Relocated ==
  [][(call'.op = "update" /\ S'.playerMoved) =>
       /\ S'.canopy.teleportRange =
            IF S.canopy.teleportTimer + call'.dt >= Sec(5)
            THEN S.canopy.teleportRange + Px(50) ELSE S.canopy.teleportRange
       /\ \A i \in 1 .. Len(S'.canopy.enemies) :
             S'.canopy.enemies[i].teleportRange = S'.canopy.teleportRange
       /\ \A i \in 1 .. Len(S.canopy.enemies) :
             LET e == S.canopy.enemies[i]
                 f == S'.canopy.enemies[i]
                 pl == [x |-> call'.ran[3].x0, y |-> call'.ran[3].y0]
                 range == S'.canopy.teleportRange
                 step == <<e.x + StepLen(f.lungeVx, call'.dt),
                           e.y + StepLen(f.lungeVy, call'.dt)>>
                 q == <<e.x + call'.ran[3].steps[i].dx, e.y + call'.ran[3].steps[i].dy>>
             IN (e.alive /\ f.lunging) =>
                  /\ Dist2(pl.x - q[1], pl.y - q[2]) <= Sq(range)
                  /\ q = IF Dist2(pl.x - step[1], pl.y - step[2]) > Sq(range)
                         THEN Relocation(pl, step, range) ELSE step
                  /\ Unmoved(S', e, q) => <<f.x, f.y>> = q]_vars

\* a lunging Thornwyrm that has been relocated and stands, in the Canopy, at
\* 0.75 of the grown teleport range from the player
C23_Witness ==
  /\ call.op = "update"
  /\ call.zonesRun
  /\ S.canopy.teleportRange > Px(150)
  /\ \E i \in 1 .. Len(S.canopy.enemies) :
        /\ S.canopy.enemies[i].alive
        /\ S.canopy.enemies[i].lunging
        /\ Dist2(P.x - S.canopy.enemies[i].x, P.y - S.canopy.enemies[i].y)
             = Sq(DivR(S.canopy.teleportRange * 75, 100))

\* e is in the Canopy rectangle inset by its radius
InCanopyInset(e) ==
  /\ e.x >= ZONES.canopy.x + e.radius
  /\ e.x <= ZONES.canopy.x + ZONES.canopy.w - e.radius
  /\ e.y >= ZONES.canopy.y + e.radius
  /\ e.y <= ZONES.canopy.y + ZONES.canopy.h - e.radius

\* C24: at the end of an update that ran the zones every alive Thornwyrm is
\* in the Canopy rectangle inset by its radius
C24_InZone ==
  (call.op = "update" /\ call.zonesRun) =>
     \A i \in 1 .. Len(S.canopy.enemies) :
        S.canopy.enemies[i].alive => InCanopyInset(S.canopy.enemies[i])

\* a Thornwyrm pulled to the centre of the map has been clamped to the corner
\* of the Canopy and pushed from there, along the diagonal, out of the safe
\* zone
C24_Witness ==
  /\ call.op = "update"
  /\ call.zonesRun
  /\ \E i \in 1 .. Len(S.canopy.enemies) :
        /\ S.canopy.enemies[i].alive
        /\ S.canopy.enemies[i].x > ZONES.canopy.x + S.canopy.enemies[i].radius
        /\ S.canopy.enemies[i].x < Px(1200)
        /\ S.canopy.enemies[i].x = S.canopy.enemies[i].y
        /\ call.ran[3].steps[i].blocked

----------------------------------------------------------------------------
(* Population growth: the player goes between a spot of the Volcanic Wastes *)
(* and a spot of the Ancient Canopy, over MaxFramesGrow frames of 10 s      *)

MaxFramesGrow == 6

GrowPositions == {<<Px(400), Px(400)>>, <<Px(1500), Px(1500)>>}

InitGrow ==
  /\ S = init(1, InitStream)
  /\ P = PlayerInit
  /\ call = NoCall

NextGrow ==
  \/ /\ call.frames < MaxFramesGrow
     /\ Update(LongMs, <<500, 250>>, CentreTargets)
  \/ \E p \in GrowPositions : MovePlayer(p[1], p[2])

SpecGrow == InitGrow /\ [][NextGrow]_vars

\* C25: an update adds at most one Thornwyrm, and adds one exactly when it
\* runs the zones, the player as the Canopy reads it is outside the Canopy
\* rectangle, the multiply timer has reached 10 s and fewer than 6 Thornwyrms
\* are alive; the timer restarts from 0 at each attempt, so that two attempts
\* are 10 s of simulated time apart or more; the added Thornwyrm is hidden
\* and not frozen; no other call adds a Thornwyrm
C25_Growth ==
  [][LET n == Len(S.canopy.enemies)
         out == ~_inZone(call'.ran[3].x0, call'.ran[3].y0, ZONES.canopy)
         due == S.canopy.multiplyTimer + call'.dt >= Sec(10)
     IN IF call'.op = "update" /\ S'.playerMoved
        THEN /\ Len(S'.canopy.enemies) =
                  IF out /\ due /\ _aliveCount(S, "canopy") < MAX_PER_ZONE
                  THEN n + 1 ELSE n
             /\ S'.canopy.multiplyTimer =
                  IF out /\ due THEN 0 ELSE S.canopy.multiplyTimer + call'.dt
             /\ Len(S'.canopy.enemies) > n =>
                  /\ S'.canopy.enemies[n + 1].type = "thornwyrm"
                  /\ S'.canopy.enemies[n + 1].alive
                  /\ ~S'.canopy.enemies[n + 1].frozen
        ELSE /\ Len(S'.canopy.enemies) = n
             /\ S'.canopy.multiplyTimer = S.canopy.multiplyTimer]_vars

\* an attempt at the cap: the timer has restarted with the player outside
\* the Canopy and six Thornwyrms alive, and none has been added
C25_Witness ==
  /\ call.op = "update"
  /\ call.zonesRun
  /\ ~_inZone(call.ran[3].x0, call.ran[3].y0, ZONES.canopy)
  /\ S.canopy.multiplyTimer = 0
  /\ call.alive0.canopy = MAX_PER_ZONE
  /\ Len(S.canopy.enemies) = MAX_PER_ZONE

----------------------------------------------------------------------------
(* Geysers: the player goes between a clear spot of the Volcanic Wastes and *)
(* the fifth geyser, over MaxFramesGeyser frames of 0.5 s and 1 s           *)

MaxFramesGeyser == 4

GeyserPositions == {<<Px(400), Px(400)>>, <<Px(700), Px(700)>>}

InitGeyser ==
  /\ S = init(1, InitStream)
  /\ P = PlayerInit
  /\ call = NoCall

NextGeyser ==
  \/ \E dt \in {Sec(1) \div 2, Sec(1)} :
       /\ call.frames < MaxFramesGeyser
       /\ Update(dt, <<500, 250>>, CentreTargets)
  \/ \E p \in GeyserPositions : MovePlayer(p[1], p[2])

SpecGeyser == InitGeyser /\ [][NextGeyser]_vars

\* one geyser across an update of dt that runs the zones: a dormant one
\* erupts when its timer reaches 5 s, an erupting one rests when its timer
\* reaches eruptDur, the timer restarts from 0 at the toggle and runs on
\* otherwise; the place and the size stay
GeyserCycle(g, h, dt) ==
  /\ h.x = g.x /\ h.y = g.y /\ h.radius = g.radius /\ h.eruptDur = g.eruptDur
  /\ g.eruptDur = 1500
  /\ IF g.erupting
     THEN /\ h.erupting <=> g.timer + dt < g.eruptDur
          /\ h.timer = IF h.erupting THEN g.timer + dt ELSE 0
     ELSE /\ h.erupting <=> g.timer + dt >= Sec(5)
          /\ h.timer = IF h.erupting THEN 0 ELSE g.timer + dt

\* C26: init makes five dormant geysers with timers below 5 s; an update that
\* runs the zones takes each through its cycle by its own timer, at most one
\* toggle per update; no other call and no update that skips the zones
\* changes a geyser; there are always five
C26_Cycle ==
  /\ [](Len(S.volcanic.geysers) = 5)
  /\ [](call.op = "init" =>
          \A i \in 1 .. 5 : /\ ~S.volcanic.geysers[i].erupting
                            /\ S.volcanic.geysers[i].timer >= 0
                            /\ S.volcanic.geysers[i].timer < Sec(5))
  /\ [][IF call'.op = "update" /\ S'.playerMoved
        THEN \A i \in 1 .. 5 :
               GeyserCycle(S.volcanic.geysers[i], S'.volcanic.geysers[i], call'.dt)
        ELSE S'.volcanic.geysers = S.volcanic.geysers]_vars

\* the fifth geyser has erupted and come to rest while the second is still
\* dormant on its first timer
C26_Witness ==
  /\ call.op = "update"
  /\ call.zonesRun
  /\ ~S.volcanic.geysers[5].erupting
  /\ S.volcanic.geysers[5].timer = 0
  /\ ~S.volcanic.geysers[2].erupting
  /\ S.volcanic.geysers[2].timer > init(1, InitStream).volcanic.geysers[2].timer

----------------------------------------------------------------------------
(* Speed escalation: Shadowmend's player stands in the Volcanic Wastes and  *)
(* pulls the Magmawyrm onto itself, over MaxFramesBoost frames of 2 s and   *)
(* 3 s                                                                      *)

MaxFramesBoost == 5
MaxPullsBoost == 1

InitBoost ==
  /\ S = init(1, InitStream)
  /\ P = [PlayerInit EXCEPT !.currentDragonId = 4]
  /\ call = NoCall

NextBoost ==
  \/ \E dt \in {Sec(2), Sec(3)} :
       /\ call.frames < MaxFramesBoost
       /\ Update(dt, <<500, 250>>, CentreTargets)
  \/ \E p \in PullPositions : MovePlayer(p[1], p[2])
  \/ /\ AbilityReady(P)
     /\ call.used < MaxPullsBoost
     /\ UseAbility

SpecBoost == InitBoost /\ [][NextBoost]_vars

\* 1.15 to the k, in thousandths, rounded at each boost
RECURSIVE Pow115(_)
Pow115(k) == IF k = 0 THEN 1000 ELSE DivR(Pow115(k - 1) * 1150, 1000)

\* C29: with frames shorter than 5 s, after k = floor(t / 5) boosts, t the
\* time for which the zones have run since init, every Magmawyrm of the
\* list, the children of a split included, has speedBoostMult = 1.15^k and
\* speed = baseSpeed x speedBoostMult, and the speed timer holds the
\* remainder of t
C29_Boost ==
  /\ S.volcanic.speedTimer = call.zoneTime % Sec(5)
  /\ \A i \in 1 .. Len(S.volcanic.enemies) :
        /\ S.volcanic.enemies[i].speedBoostMult = Pow115(call.zoneTime \div Sec(5))
        /\ S.volcanic.enemies[i].speed =
             DivR(S.volcanic.enemies[i].baseSpeed * S.volcanic.enemies[i].speedBoostMult,
                  1000)

\* two boosts have passed and the zone holds the children of a split, which
\* is later than the first boost
C29_Witness ==
  /\ call.op = "update"
  /\ call.zoneTime >= Sec(10)
  /\ \E i \in 1 .. Len(S.volcanic.enemies) :
        /\ S.volcanic.enemies[i].alive
        /\ S.volcanic.enemies[i].sizeMult = 600
        /\ S.volcanic.enemies[i].speedBoostMult = Pow115(2)
        /\ S.volcanic.enemies[i].speed > S.volcanic.enemies[i].baseSpeed

----------------------------------------------------------------------------
(* The drift of the Reef egg: long and short frames, the player in the     *)
(* safe zone or on the egg's course, the egg started due south or to the    *)
(* south-east                                                               *)

MaxFramesDrift == 4

\* InitStream with the egg's bearing turned to the south-east
DriftStream == <<500, 150, 750, 100, 900, 0, 999>>

\* the map centre and a spot on each of the egg's two courses
DriftPositions ==
  {<<CENTER_X, CENTER_Y>>, <<Px(625), Px(1570)>>, <<Px(690), Px(1365)>>}

InitDrift ==
  /\ \E rs \in {InitStream, DriftStream} : S = init(1, rs)
  /\ P = PlayerInit
  /\ call = NoCall

NextDrift ==
  \/ \E dt \in {Sec(2), LongMs} :
       /\ call.frames < MaxFramesDrift
       /\ Update(dt, <<500, 250>>, CentreTargets)
  \/ \E p \in DriftPositions : MovePlayer(p[1], p[2])

SpecDrift == InitDrift /\ [][NextDrift]_vars

\* the egg lies in the Reef zone inset by 20 px on each side
InReefInset(egg) ==
  /\ egg.x >= ZONES.reef.x + Px(20)
  /\ egg.x <= ZONES.reef.x + ZONES.reef.w - Px(20)
  /\ egg.y >= ZONES.reef.y + Px(20)
  /\ egg.y <= ZONES.reef.y + ZONES.reef.h - Px(20)

\* C30: an update that starts with the Reef egg uncollected ends with the
\* egg in the Reef zone inset by 20 px; |vx| and |vy| are what they were,
\* and a component changes sign only where the egg ends on the wall of its
\* axis, heading back into the zone
C30_Drift ==
  [][(call'.op = "update" /\ ~S.reef.egg.collected) =>
       LET e == S.reef.egg
           f == S'.reef.egg
       IN /\ InReefInset(f)
          /\ Abs(f.vx) = Abs(e.vx)
          /\ Abs(f.vy) = Abs(e.vy)
          /\ f.vx # e.vx =>
                \/ f.x = ZONES.reef.x + Px(20) /\ f.vx > 0
                \/ f.x = ZONES.reef.x + ZONES.reef.w - Px(20) /\ f.vx < 0
          /\ f.vy # e.vy =>
                \/ f.y = ZONES.reef.y + Px(20) /\ f.vy > 0
                \/ f.y = ZONES.reef.y + ZONES.reef.h - Px(20) /\ f.vy < 0]_vars

\* an update that bounced the uncollected egg off the east wall while it
\* kept drifting south inside the zone
C30_Witness ==
  /\ call.op = "update"
  /\ ~call.eggs0[4].collected
  /\ ~S.reef.egg.collected
  /\ call.eggs0[4].vx > 0
  /\ S.reef.egg.vx = -call.eggs0[4].vx
  /\ S.reef.egg.x = ZONES.reef.x + ZONES.reef.w - Px(20)
  /\ S.reef.egg.vy = call.eggs0[4].vy
  /\ S.reef.egg.y > call.eggs0[4].y
  /\ S.reef.egg.y < ZONES.reef.y + ZONES.reef.h - Px(20)

----------------------------------------------------------------------------
(* The Volcanic hazards and the player: the player stands on the centre of *)
(* the fifth geyser, just beside it, or on the Magmawyrm's way, over        *)
(* MaxFramesHazard frames of 0.5 s and 1 s                                  *)

MaxFramesHazard == 4

HazardPositions ==
  {<<Px(750), Px(750)>>, <<Px(740), Px(750)>>, <<Px(560), Px(560)>>}

InitHazard ==
  /\ S = init(1, InitStream)
  /\ P = PlayerInit
  /\ call = NoCall

NextHazard ==
  \/ \E dt \in {Sec(1) \div 2, Sec(1)} :
       /\ call.frames < MaxFramesHazard
       /\ Update(dt, <<500, 250>>, CentreTargets)
  \/ \E p \in HazardPositions : MovePlayer(p[1], p[2])

SpecHazard == InitHazard /\ [][NextHazard]_vars

\* the player as the Volcanic step of the last update left it
VolcanicLeft == [x |-> call.ran[1].x1, y |-> call.ran[1].y1, radius |-> P.radius]

\* the circle of p overlaps the circle of the hazard h
Overlaps(p, h) == Dist2(p.x - h.x, p.y - h.y) < Sq(h.radius + p.radius)

\* every lava trail of the list is alive and no older than it was laid
TrailsAlive ==
  \A i \in 1 .. Len(S.volcanic.lavaTrails) :
     /\ S.volcanic.lavaTrails[i].life > 0
     /\ S.volcanic.lavaTrails[i].life <= Sec(5)

\* C31: at the end of the Volcanic step of an update the player's circle
\* overlaps no lava trail of the list and no erupting geyser, and every lava
\* trail of the list has 0 < life <= 5
C31_Repelled ==
  (call.op = "update" /\ call.zonesRun) =>
     /\ \A i \in 1 .. Len(S.volcanic.lavaTrails) :
           ~Overlaps(VolcanicLeft, S.volcanic.lavaTrails[i])
     /\ \A j \in 1 .. Len(S.volcanic.geysers) :
           S.volcanic.geysers[j].erupting => ~Overlaps(VolcanicLeft, S.volcanic.geysers[j])
     /\ TrailsAlive

----------------------------------------------------------------------------
(* The egg hunt: after the first update the player stands one frame of 2 s  *)
(* on the Canopy egg's host, one by the Glacial egg and one on the Reef     *)
(* egg's course, then on the Volcanic egg for the frames that are left, up  *)
(* to MaxFramesHunt, where it may use its dragon's ability MaxPullsHunt     *)
(* times                                                                    *)

MaxFramesHunt == 7
MaxPullsHunt == 1

\* where the player stands for the update that follows n updates
HuntSpot(n) ==
  CASE n = 0 -> <<CENTER_X, CENTER_Y>>
    [] n = 1 -> <<Px(1685), Px(1204)>>
    [] n = 2 -> <<Px(1800), Px(270)>>
    [] n = 3 -> <<Px(625), Px(1570)>>
    [] OTHER -> <<S.volcanic.egg.x, S.volcanic.egg.y>>

InitHunt ==
  /\ S = init(1, InitStream)
  /\ \E d \in 1 .. 6 : P = [PlayerInit EXCEPT !.currentDragonId = d]
  /\ call = NoCall

NextHunt ==
  \/ \E dt \in {Sec(1), Sec(2)} :
       /\ call.frames < MaxFramesHunt
       /\ call.frames < 4 => dt = Sec(2)
       /\ <<P.x, P.y>> = HuntSpot(call.frames)
       /\ Update(dt, <<500, 250>>, CentreTargets)
  \/ MovePlayer(HuntSpot(call.frames)[1], HuntSpot(call.frames)[2])
  \/ /\ call.frames >= 4
     /\ AbilityReady(P)
     /\ call.used < MaxPullsHunt
     /\ UseAbility

SpecHunt == InitHunt /\ [][NextHunt]_vars

\* the hunt is over
HuntDone == call.op = "update" /\ call.frames = MaxFramesHunt

\* the hunt ends with the Glacial, the Canopy and the Reef egg collected
HuntThree == HuntDone => \A k \in 2 .. 4 : EggsOf(S)[k].collected

\* C32: each of the four zones has an unlock rule that update applies: a
\* hunt that has gone to every egg ends with the four eggs collected
C32_Unlocked == HuntDone => \A k \in 1 .. 4 : EggsOf(S)[k].collected

\* no update ever collects the Volcanic egg
VolcanicEggKept == ~S.volcanic.egg.collected

----------------------------------------------------------------------------
(* The Volcanic population over the pulls and splits of SpecPull            *)

\* the sizes of the three generations of Magmawyrms, in thousandths
SplitSizes == {1000, DivR(1000 * 600, 1000), DivR(DivR(1000 * 600, 1000) * 600, 1000)}

\* C33: every Magmawyrm has sizeMult 1, 0.6 or 0.36 and the Volcanic zone
\* holds between 1 and 4 alive Magmawyrms, in every state; an update never
\* lowers the alive count, and every parent it splits leaves two children
C33_Depth ==
  /\ [](\A i \in 1 .. Len(S.volcanic.enemies) :
          S.volcanic.enemies[i].sizeMult \in SplitSizes)
  /\ [](_aliveCount(S, "volcanic") \in 1 .. 4)
  /\ [][call'.op = "update" =>
          /\ _aliveCount(S', "volcanic") >= _aliveCount(S, "volcanic")
          /\ \A m \in 1 .. Len(call'.splits) :
                call'.splits[m].split => Len(call'.splits[m].children) = 2]_vars

\* an update in which the two Magmawyrms of 0.6 have split, one after the
\* other, into the four of 0.36, the second with the zone's alive count
\* read as 0
C33_Witness ==
  /\ call.op = "update"
  /\ call.alive0["volcanic"] = 2
  /\ _aliveCount(S, "volcanic") = 4
  /\ \A m \in 1 .. Len(call.splits) :
        /\ call.splits[m].split
        /\ call.splits[m].parent.sizeMult = 600
        /\ Len(call.splits[m].children) = 2
  /\ \A i \in 1 .. Len(S.volcanic.enemies) : S.volcanic.enemies[i].sizeMult = 360

----------------------------------------------------------------------------
(* The first update after init and the safe zone, in the frames of SpecSafe *)

\* C34: init leaves playerWasInside false, so that the first update after
\* init, when it finds the player inside the safe zone, counts an entry:
\* uses = 1 and radius = 96; the player's default position, the centre of
\* the zone, is inside
C34_FirstEntry ==
  /\ call.op = "init" =>
        /\ ~S.safeZone.playerWasInside
        /\ S.safeZone.uses = 0
        /\ S.safeZone.radius = 12000
  /\ (call.op = "update" /\ ~call.prevUpdated /\ call.inside) =>
        /\ call.sz0.uses = 0
        /\ S.safeZone.uses = 1
        /\ S.safeZone.radius = 9600
        /\ S.safeZone.active
        /\ S.safeZone.playerWasInside
  /\ (call.op = "update" /\ ~call.prevUpdated
        /\ P.x = PlayerInit.x /\ P.y = PlayerInit.y) => call.inside

\* the first update after init, made with the player where the script leaves
\* it, has counted an entry
C34_Witness ==
  /\ call.op = "update"
  /\ ~call.prevUpdated
  /\ P.x = PlayerInit.x
  /\ P.y = PlayerInit.y
  /\ call.sz0.uses = 0
  /\ ~call.sz0.playerWasInside
  /\ S.safeZone.uses = 1
  /\ S.safeZone.radius = 9600

----------------------------------------------------------------------------
(* The Reef's school and its bouncing obstacles: Shadowmend's player goes   *)
(* to the east wall of the Reef, on the row of the fourth obstacle, and     *)
(* pulls the school onto itself, over MaxFramesReef frames of 0.6 s         *)

MaxFramesReef == 5
MaxPullsReef == 1

\* the frame of this specification, 0.6 s
ReefFrameMs == (Sec(1) * 3) \div 5

\* the sweep of the three Tidewyrms of init in the first frames of 0.6 s, at
\* wave complexity 0: row k is the sweep at wavePhase = 0.6 k s, its i-th pair
\* (cos((wavePhase + waveOffset) * 0.8), sin of that angle plus the rank's
\* share of the circle), in thousandths, for waveOffset = rank share = 0,
\* 1/3 and 2/3 of the circle
SweepTable ==
  <<<<<<887, 462>>, <<-552, -895>>, <<-772, 986>>>>,
    <<<<574, 819>>, <<-875, -1000>>, <<-391, 799>>>>,
    <<<<130, 991>>, <<-1000, -879>>, <<79, 430>>>>,
    <<<<-342, 940>>, <<-899, -559>>, <<530, -35>>>>,
    <<<<-737, 675>>, <<-595, -113>>, <<862, -493>>>>,
    <<<<-966, 259>>, <<-156, 359>>, <<999, -839>>>>,
    <<<<-976, -217>>, <<318, 749>>, <<910, -995>>>>,
    <<<<-766, -643>>, <<720, 970>>, <<615, -927>>>>>>

\* the sweep of the frame that takes the wave phase from wavePhase on
SweepAt(wavePhase) == SweepTable[Min(wavePhase \div ReefFrameMs + 1, Len(SweepTable))]

\* spots by the east wall on the row of the fourth obstacle, and one south
\* of the safe zone
ReefPositions ==
  {<<Px(936), Px(1500)>>, <<Px(920), Px(1500)>>, <<Px(1000), Px(1200)>>}

InitReef ==
  /\ S = init(1, InitStream)
  /\ P = [PlayerInit EXCEPT !.currentDragonId = 4]
  /\ call = NoCall

NextReef ==
  \/ /\ call.frames < MaxFramesReef
     /\ Update(ReefFrameMs, <<500, 250>>, SweepAt(S.reef.wavePhase))
  \/ \E p \in ReefPositions : MovePlayer(p[1], p[2])
  \/ /\ AbilityReady(P)
     /\ call.used < MaxPullsReef
     /\ UseAbility

SpecReef == InitReef /\ [][NextReef]_vars

\* the point (x, y) lies in the Reef rectangle inset by r on each side
InReefBy(x, y, r) ==
  /\ x >= ZONES.reef.x + r
  /\ x <= ZONES.reef.x + ZONES.reef.w - r
  /\ y >= ZONES.reef.y + r
  /\ y <= ZONES.reef.y + ZONES.reef.h - r

\* every bouncing obstacle lies in the Reef inset by its radius
ObstaclesInReef ==
  \A j \in 1 .. Len(S.reef.obstacles) :
     InReefBy(S.reef.obstacles[j].x, S.reef.obstacles[j].y, S.reef.obstacles[j].r)

\* every alive Tidewyrm lies in the Reef inset by its radius
SchoolInReef ==
  \A i \in 1 .. Len(S.reef.enemies) :
     S.reef.enemies[i].alive =>
        InReefBy(S.reef.enemies[i].x, S.reef.enemies[i].y, S.reef.enemies[i].radius)

\* C35: at the end of every update that ran the zones, every alive Tidewyrm
\* and every bouncing obstacle lies in the Reef rectangle inset by its own
\* radius
C35_InReef ==
  (call.op = "update" /\ call.zonesRun) => (SchoolInReef /\ ObstaclesInReef)

====
